---- MODULE Spec2Model ----
(***************************************************************************)
(* A model of crudora: the Model class configuration                      *)
(* (src/src/core/model.ts), its projection mask (Model.getSelectObject),   *)
(* the Repository operations with their lifecycle hooks                    *)
(* (src/src/core/repository.ts, lines 4-182), the validation schemas       *)
(* (src/src/utils/validation.ts and its fillable-based version), the       *)
(* generated CRUD routes and the orchestrator that registers the models    *)
(* and mounts the routes (src/src/core/crudora.ts), alone and with two     *)
(* requests in flight at once.                                             *)
(*                                                                         *)
(* JavaScript values are modelled as functions with string domains:        *)
(*   an object {k: v}  is the function [k |-> v],                          *)
(*   an array          is [items |-> <<...>>],                             *)
(*   undefined / null  are the two reserved values below,                  *)
(*   a thrown error    is [error |-> code].                                *)
(* An async function is modelled one awaited call per action: the action   *)
(* that handles an await records the call (function, argument, outcome)   *)
(* in `trace` and runs the synchronous code up to the next await.          *)
(***************************************************************************)
EXTENDS Integers, Sequences, FiniteSets, TLC

VARIABLES
    modelClass,     \* the Model subclass handed to the Repository (static fields, hooks)
    prisma,         \* the persistence client (its optional dmmf introspection object)
    pc,             \* position of the Repository operation in flight
    op,             \* the operation in flight and the caller's arguments
    select,         \* local `select` of the operation (getSelectOptions())
    processedData,  \* local `processedData` (create, update)
    queryOptions,   \* local `findOptions` (findById) / `queryOptions` (findAll)
    result,         \* local `result` / `results` / `finalResult`
    trace,          \* the awaited calls of the operation in flight, in order
    outcome,        \* what the caller's promise settled with
    fieldMetadata,  \* the @Field metadata stored for the model class (Reflect metadata)
    validation,     \* a schema built for the model class and applied to an input
    req,            \* the HTTP request being handled by a generated route
    res,            \* the response the route handler has sent
    handler,        \* position of the route handler in flight
    calls,          \* the Repository methods the route handler has called, in order
    items,          \* local `items` of the LIST handler
    crudora,        \* the Crudora instance (prisma, models, repositories, customRoutes)
    app,            \* the routes mounted on the Express application, in mount order
    setup,          \* the registration and route-generation calls made so far, in order
    last,           \* the last lookup or dispatch and what came of it
    suspended       \* the other request in flight: the locals of its handler, waiting

\* the Repository and what it is constructed with
repositoryVars == <<modelClass, prisma, pc, op, select, processedData, queryOptions,
                    result, trace, outcome>>

\* the validation layer
validationVars == <<fieldMetadata, validation>>

\* the Express layer: the request in flight and the handler serving it
expressVars == <<req, res, handler, calls, items>>

\* the orchestrator and the application it mounts its routes on
orchestratorVars == <<crudora, app, setup, last>>

vars == <<modelClass, prisma, pc, op, select, processedData, queryOptions,
          result, trace, outcome, fieldMetadata, validation, req, res, handler,
          calls, items, crudora, app, setup, last, suspended>>

-----------------------------------------------------------------------------
(* Bounds *)

\* rows of the persistence collection (ids 1..NumRows)
NumRows == 2

-----------------------------------------------------------------------------
(* JavaScript values *)

Undefined == [undefined |-> TRUE]
Null == [null |-> TRUE]
Arr(s) == [items |-> s]
Err(code) == [error |-> code]

IsArray(v) == DOMAIN v = {"items"}

IsError(v) == DOMAIN v = {"error"}

Has(obj, key) == key \in DOMAIN obj

\* a z.ZodError with its issues
ZodError(issues) == [name |-> "ZodError", issues |-> issues]

\* error instanceof z.ZodError
IsZodError(e) == Has(e, "issues")

\* JS truthiness of the values used here: undefined and null are falsy,
\* every object and every array (also the empty ones) is truthy.
Truthy(v) == v # Undefined /\ v # Null

\* Array.prototype.includes on an array of strings
includes(arr, x) == \E i \in DOMAIN arr.items : arr.items[i] = x

Elems(arr) == {arr.items[i] : i \in DOMAIN arr.items}

\* {...obj, [key]: value}; spreading undefined or null adds nothing
Spread(obj, key, value) ==
    IF obj # Undefined /\ obj # Null THEN (key :> value) @@ obj ELSE (key :> value)

-----------------------------------------------------------------------------
(* The persistence collection *)

Columns == {"id", "uid", "name", "password", "createdAt", "updatedAt"}

FieldOrder == <<"id", "uid", "name", "password", "createdAt", "updatedAt">>

\* the array listing the members of S in declaration order
ListOf(S) == Arr(SelectSeq(FieldOrder, LAMBDA k : k \in S))

Ids == 1 .. NumRows

\* the stored record with id i: every column present (the hidden ones too)
Row(i) == [k \in Columns |-> i]

Rows == {Row(i) : i \in Ids}

\* the lists findMany can answer: rows in id order, each at most once
RowLists == {Arr(SelectSeq([i \in Ids |-> Row(i)], LAMBDA r : r.id \in S)) : S \in SUBSET Ids}

PrismaErrors == {Err("P2002"), Err("P2025")}

HookError == Err("hook")

\* what a hook can throw: an Error, or the ZodError of a schema the hook applies
HookErrors == {HookError, ZodError({[path |-> "name", code |-> "custom"]})}

-----------------------------------------------------------------------------
(* The Model class: static configuration and hooks (src/src/core/model.ts) *)

HookNames == {"beforeCreate", "afterCreate", "beforeUpdate", "afterUpdate",
              "beforeDelete", "afterDelete", "beforeFind", "afterFind"}

BeforeHooks == {"beforeCreate", "beforeUpdate", "beforeDelete", "beforeFind"}

\* static hidden?: string[]  -- undefined, or a list of field names
HiddenChoices == {Undefined} \cup {ListOf(S) : S \in SUBSET {"id", "password", "updatedAt"}}

\* static fillable?: string[]
FillableChoices == {Undefined, ListOf({}), ListOf({"name"}), ListOf({"name", "password"})}

\* static primaryKey?: string = 'id'  -- "" stands for an unset (falsy) value
PrimaryKeyChoices == {"", "uid"}

\* which of the eight static hooks the class has (the base class defines all of
\* them; ModelConstructor declares each optional)
HookChoices ==
    {HookNames, {},
     {"beforeCreate", "afterUpdate", "beforeDelete", "afterFind"},
     {"afterCreate", "beforeUpdate", "afterDelete", "beforeFind"}}

ModelClasses ==
    [name : {"User"},
     primaryKey : PrimaryKeyChoices,
     timestamps : BOOLEAN,
     fillable : FillableChoices,
     hidden : HiddenChoices,
     hooks : HookChoices]

\* an entry of prisma.dmmf.datamodel.models
ModelDef(name) == [name |-> name, fields |-> Arr([i \in DOMAIN FieldOrder |-> [name |-> FieldOrder[i]]])]

Dmmf(names) == [datamodel |-> [models |-> Arr([i \in DOMAIN names |-> ModelDef(names[i])])]]

\* the client without dmmf, with a dmmf that knows the model, with one that does
\* not, and with one whose datamodel is missing (reading .models of it throws)
PrismaClients ==
    {[dmmf |-> Undefined],
     [dmmf |-> Dmmf(<<"Post", "User">>)],
     [dmmf |-> Dmmf(<<"Post">>)],
     [dmmf |-> [datamodel |-> Undefined]]}

getPrimaryKey(m) == IF m.primaryKey # "" THEN m.primaryKey ELSE "id"

\* !this.hidden || this.hidden.length === 0
NoHidden(m) == ~Truthy(m.hidden) \/ Len(m.hidden.items) = 0

\* models.find(model => model.name === modelName); undefined when none matches
FindModelDef(models, modelName) ==
    LET hits == {i \in DOMAIN models.items : models.items[i].name = modelName}
    IN  IF hits = {} THEN Undefined
        ELSE models.items[CHOOSE i \in hits : \A j \in hits : i <= j]

\* prismaClient.dmmf.datamodel.models.find(...): the model's entry, undefined when
\* there is none, and the TypeError of reading .models of a missing datamodel
DmmfLookup(m, dmmf) ==
    IF ~Truthy(dmmf.datamodel) THEN Err("TypeError")
    ELSE FindModelDef(dmmf.datamodel.models, m.name)

\* the introspection branch with the exception of the lookup left uncaught
SelectFromDmmf_uncaught(m, dmmf) ==
    LET modelDef == DmmfLookup(m, dmmf)
    IN  IF IsError(modelDef) THEN modelDef
        ELSE IF Truthy(modelDef)
             THEN [k \in {modelDef.fields.items[i].name : i \in
                             {j \in DOMAIN modelDef.fields.items :
                                ~includes(m.hidden, modelDef.fields.items[j].name)}} |-> TRUE]
        ELSE Undefined

\* the try block of getSelectObject: the mask from introspection; Undefined when
\* the model is not found, and when the lookup throws (caught and warned about)
SelectFromDmmf(m, dmmf) ==
    LET modelDef == DmmfLookup(m, dmmf)
    IN  IF IsError(modelDef) THEN Undefined
        ELSE IF Truthy(modelDef)
             THEN [k \in {modelDef.fields.items[i].name : i \in
                             {j \in DOMAIN modelDef.fields.items :
                                ~includes(m.hidden, modelDef.fields.items[j].name)}} |-> TRUE]
        ELSE Undefined

\* the whitelist branch adding the timestamp fields without looking at hidden
SelectFromFillable_timestampsUnchecked(m) ==
    LET primaryKey == getPrimaryKey(m)
        pk == IF ~includes(m.hidden, primaryKey) THEN {primaryKey} ELSE {}
        fl == {f \in Elems(m.fillable) : ~includes(m.hidden, f)}
        ts == IF m.timestamps THEN {"createdAt", "updatedAt"} ELSE {}
    IN  [k \in pk \cup fl \cup ts |-> TRUE]

\* the whitelist branch of getSelectObject (fillable non-empty)
SelectFromFillable(m) ==
    LET primaryKey == getPrimaryKey(m)
        pk == IF ~includes(m.hidden, primaryKey) THEN {primaryKey} ELSE {}
        fl == {f \in Elems(m.fillable) : ~includes(m.hidden, f)}
        ts == IF m.timestamps
              THEN (IF ~includes(m.hidden, "createdAt") THEN {"createdAt"} ELSE {})
                   \cup (IF ~includes(m.hidden, "updatedAt") THEN {"updatedAt"} ELSE {})
              ELSE {}
    IN  [k \in pk \cup fl \cup ts |-> TRUE]

\* getSelectObject without the length check of its first test
getSelectObject_noLengthCheck(m, prismaClient) ==
    IF ~Truthy(m.hidden) THEN Undefined
    ELSE IF Truthy(m.fillable) /\ Len(m.fillable.items) > 0 THEN SelectFromFillable(m)
    ELSE IF Truthy(prismaClient) /\ Truthy(prismaClient.dmmf)
         THEN SelectFromDmmf(m, prismaClient.dmmf)
    ELSE Undefined

getSelectObject(m, prismaClient) ==
    IF NoHidden(m) THEN Undefined
    ELSE IF Truthy(m.fillable) /\ Len(m.fillable.items) > 0 THEN SelectFromFillable(m)
    ELSE IF Truthy(prismaClient) /\ Truthy(prismaClient.dmmf)
         THEN SelectFromDmmf(m, prismaClient.dmmf)
    ELSE Undefined

-----------------------------------------------------------------------------
(* Repository helpers (src/src/core/repository.ts) *)

getSelectOptions == getSelectObject(modelClass, prisma)

filterObject(m, obj) ==
    IF ~Truthy(obj) THEN obj
    ELSE [k \in DOMAIN obj \ Elems(m.hidden) |-> obj[k]]

\* a filter that handles single records only
filterHiddenFields_recordsOnly(m, data) ==
    IF NoHidden(m) \/ IsArray(data) THEN data
    ELSE filterObject(m, data)

filterHiddenFields(m, data) ==
    IF NoHidden(m) THEN data
    ELSE IF IsArray(data)
         THEN Arr([i \in DOMAIN data.items |-> filterObject(m, data.items[i])])
    ELSE filterObject(m, data)

\* if (this.modelClass.<hook>)
HookDefined(h) == h \in modelClass.hooks

-----------------------------------------------------------------------------
(* What the callers, the hooks and the persistence layer can hand over *)

\* data of a create/update call, and what beforeCreate/beforeUpdate can resolve to
DataChoices == {[name |-> 1], [name |-> 2, password |-> 2]}

\* options of a findAll call: none, or a page with a filter
OptionChoices == {Undefined, [skip |-> 0, take |-> 10, where |-> [name |-> 1]]}

\* a beforeFind that adds a key to the options it is given ({...options, include})
WithInclude(options) == Spread(options, "include", [profile |-> TRUE])

\* what beforeFind can resolve to: its argument, or its argument with a key added
FindHookReturns(options) == {options, WithInclude(options)}

\* an after-hook that marks what it is given ({...result, processed: true})
Processed(r) ==
    IF IsArray(r)
    THEN Arr([i \in DOMAIN r.items |-> Spread(r.items[i], "processed", TRUE)])
    ELSE Spread(r, "processed", TRUE)

\* what an after-hook can resolve to: its result argument, or a transformed one
AfterHookReturns(r) == {r, Processed(r)}

\* what beforeDelete can resolve to (Promise<void>, or any value)
VoidReturns == {Undefined, [abort |-> TRUE]}

\* the persistence layer answers a call carrying a select with the selected
\* fields of the stored record only, and with the whole record otherwise
Project(raw, args) ==
    IF "select" \in DOMAIN args
    THEN [k \in DOMAIN raw \cap DOMAIN args.select |-> raw[k]]
    ELSE raw

Answer(raw, args) ==
    IF ~Truthy(raw) THEN raw
    ELSE IF IsArray(raw) THEN Arr([i \in DOMAIN raw.items |-> Project(raw.items[i], args)])
    ELSE Project(raw, args)

\* an awaited call that resolved, and one that rejected
Resolved(fn, args, ret) == [fn |-> fn, args |-> args, threw |-> FALSE, ret |-> ret]
Rejected(fn, args, e) == [fn |-> fn, args |-> args, threw |-> TRUE, ret |-> e]

-----------------------------------------------------------------------------
(* The Repository operations, one action per awaited call *)

\* a caller invokes an operation on the idle Repository
Begin(name, args) ==
    /\ pc = "idle"
    /\ op' = [name |-> name, args |-> args]
    /\ trace' = <<>>
    /\ result' = Undefined
    /\ UNCHANGED <<modelClass, prisma, validationVars, orchestratorVars, suspended>>

\* return v / an exception e leaves the async function
Return(v) == pc' = "done" /\ outcome' = [threw |-> FALSE, value |-> v]

\* the exception replaced by another one on its way out
Throw_wrapped(e) == pc' = "done" /\ outcome' = [threw |-> TRUE, value |-> Err("Internal")]

Throw(e) == pc' = "done" /\ outcome' = [threw |-> TRUE, value |-> e]

\* const select = this.getSelectOptions(), then on to the first await `next`;
\* an exception of getSelectOptions would leave the operation here
Proceed(sel, next) ==
    /\ select' = (IF IsError(sel) THEN Undefined ELSE sel)
    /\ IF IsError(sel) THEN Throw(sel)
       ELSE pc' = next /\ outcome' = Undefined

\* the rejection of the awaited call fn(args) leaves the async function
Reject(fn, args, e) ==
    /\ trace' = Append(trace, Rejected(fn, args, e))
    /\ Throw(e)

\* the call made with the caller's data instead of the before-hook's
createArgs_callerData ==
    IF Truthy(select) THEN [data |-> op.args.data, select |-> select]
    ELSE [data |-> op.args.data]

\* { data: processedData, select } or { data: processedData }
createArgs ==
    IF Truthy(select) THEN [data |-> processedData, select |-> select]
    ELSE [data |-> processedData]

create(data) ==
    /\ Begin("create", [data |-> data])
    /\ processedData' = data
    /\ queryOptions' = Undefined
    /\ Proceed(getSelectOptions,
               IF HookDefined("beforeCreate") THEN "create.beforeCreate" ELSE "create.model")

\* await beforeCreate with its rejection swallowed: the operation carries on
create_beforeCreate_swallow ==
    /\ pc = "create.beforeCreate"
    /\ \/ \E ret \in DataChoices :
            /\ trace' = Append(trace, Resolved("beforeCreate", [data |-> op.args.data], ret))
            /\ processedData' = ret
       \/ \E e \in HookErrors :
            /\ trace' = Append(trace, Rejected("beforeCreate", [data |-> op.args.data], e))
            /\ UNCHANGED processedData
    /\ pc' = "create.model"
    /\ UNCHANGED <<validationVars, expressVars, orchestratorVars, suspended>>
    /\ UNCHANGED <<modelClass, prisma, op, select, queryOptions, result, outcome>>

create_beforeCreate ==
    /\ pc = "create.beforeCreate"
    /\ \/ \E ret \in DataChoices :
            /\ trace' = Append(trace, Resolved("beforeCreate", [data |-> op.args.data], ret))
            /\ processedData' = ret
            /\ pc' = "create.model"
            /\ UNCHANGED outcome
       \/ \E e \in HookErrors :
            /\ Reject("beforeCreate", [data |-> op.args.data], e)
            /\ UNCHANGED processedData
    /\ UNCHANGED <<validationVars, expressVars, orchestratorVars, suspended>>
    /\ UNCHANGED <<modelClass, prisma, op, select, queryOptions, result>>

create_model_create ==
    /\ pc = "create.model"
    /\ \/ \E raw \in Rows :
            LET ret == Answer(raw, createArgs) IN
            /\ trace' = Append(trace, Resolved("model.create", createArgs, ret))
            /\ result' = IF Truthy(select) THEN ret ELSE filterHiddenFields(modelClass, ret)
            /\ IF HookDefined("afterCreate")
               THEN pc' = "create.afterCreate" /\ UNCHANGED outcome
               ELSE Return(result')
       \/ \E e \in PrismaErrors :
            /\ Reject("model.create", createArgs, e)
            /\ UNCHANGED result
    /\ UNCHANGED <<validationVars, expressVars, orchestratorVars, suspended>>
    /\ UNCHANGED <<modelClass, prisma, op, select, processedData, queryOptions>>

create_afterCreate ==
    /\ pc = "create.afterCreate"
    /\ LET args == [data |-> processedData, result |-> result] IN
       \/ \E ret \in AfterHookReturns(result) :
            /\ trace' = Append(trace, Resolved("afterCreate", args, ret))
            /\ result' = ret
            /\ Return(ret)
       \/ \E e \in HookErrors :
            /\ Reject("afterCreate", args, e)
            /\ UNCHANGED result
    /\ UNCHANGED <<validationVars, expressVars, orchestratorVars, suspended>>
    /\ UNCHANGED <<modelClass, prisma, op, select, processedData, queryOptions>>

\* { ...findOptions, select } or findOptions
findUniqueArgs ==
    IF Truthy(select) THEN Spread(queryOptions, "select", select) ELSE queryOptions

\* findUnique answers the record the query is keyed on, or null when there is none
FindUniqueAnswers(args) == {Row(args.where.id), Null}

findById(id) ==
    /\ Begin("findById", [id |-> id])
    /\ queryOptions' = [where |-> [id |-> id]]
    /\ processedData' = Undefined
    /\ Proceed(getSelectOptions,
               IF HookDefined("beforeFind") THEN "findById.beforeFind" ELSE "findById.model")

findById_beforeFind ==
    /\ pc = "findById.beforeFind"
    /\ \/ \E ret \in FindHookReturns(queryOptions) :
            /\ trace' = Append(trace, Resolved("beforeFind", [options |-> queryOptions], ret))
            /\ queryOptions' = ret
            /\ pc' = "findById.model"
            /\ UNCHANGED outcome
       \/ \E e \in HookErrors :
            /\ Reject("beforeFind", [options |-> queryOptions], e)
            /\ UNCHANGED queryOptions
    /\ UNCHANGED <<validationVars, expressVars, orchestratorVars, suspended>>
    /\ UNCHANGED <<modelClass, prisma, op, select, processedData, result>>

\* await model.findUnique, then afterFind whether or not a record was found
findById_model_findUnique_alwaysAfter ==
    /\ pc = "findById.model"
    /\ \/ \E raw \in FindUniqueAnswers(findUniqueArgs) :
            LET ret == Answer(raw, findUniqueArgs) IN
            /\ trace' = Append(trace, Resolved("model.findUnique", findUniqueArgs, ret))
            /\ result' = IF Truthy(select) THEN ret
                         ELSE IF Truthy(ret) THEN filterHiddenFields(modelClass, ret)
                         ELSE Null
            /\ IF HookDefined("afterFind")
               THEN pc' = "findById.afterFind" /\ UNCHANGED outcome
               ELSE Return(result')
       \/ \E e \in PrismaErrors :
            /\ Reject("model.findUnique", findUniqueArgs, e)
            /\ UNCHANGED result
    /\ UNCHANGED <<validationVars, expressVars, orchestratorVars, suspended>>
    /\ UNCHANGED <<modelClass, prisma, op, select, processedData, queryOptions>>

findById_model_findUnique ==
    /\ pc = "findById.model"
    /\ \/ \E raw \in FindUniqueAnswers(findUniqueArgs) :
            LET ret == Answer(raw, findUniqueArgs) IN
            /\ trace' = Append(trace, Resolved("model.findUnique", findUniqueArgs, ret))
            /\ result' = IF Truthy(select) THEN ret
                         ELSE IF Truthy(ret) THEN filterHiddenFields(modelClass, ret)
                         ELSE Null
            /\ IF Truthy(result') /\ HookDefined("afterFind")
               THEN pc' = "findById.afterFind" /\ UNCHANGED outcome
               ELSE Return(result')
       \/ \E e \in PrismaErrors :
            /\ Reject("model.findUnique", findUniqueArgs, e)
            /\ UNCHANGED result
    /\ UNCHANGED <<validationVars, expressVars, orchestratorVars, suspended>>
    /\ UNCHANGED <<modelClass, prisma, op, select, processedData, queryOptions>>

findById_afterFind ==
    /\ pc = "findById.afterFind"
    /\ LET args == [result |-> result] IN
       \/ \E ret \in AfterHookReturns(result) :
            /\ trace' = Append(trace, Resolved("afterFind", args, ret))
            /\ result' = ret
            /\ Return(ret)
       \/ \E e \in HookErrors :
            /\ Reject("afterFind", args, e)
            /\ UNCHANGED result
    /\ UNCHANGED <<validationVars, expressVars, orchestratorVars, suspended>>
    /\ UNCHANGED <<modelClass, prisma, op, select, processedData, queryOptions>>

\* finalOptions = queryOptions ? { ...queryOptions, select } : { select }, or queryOptions
findManyArgs ==
    IF Truthy(select)
    THEN (IF Truthy(queryOptions) THEN Spread(queryOptions, "select", select)
          ELSE [select |-> select])
    ELSE queryOptions

\* findAll that runs beforeFind only when it was given options
findAll_hookOnlyWithOptions(options) ==
    /\ Begin("findAll", [options |-> options])
    /\ queryOptions' = IF Truthy(options) THEN options ELSE Undefined
    /\ processedData' = Undefined
    /\ Proceed(getSelectOptions,
               IF HookDefined("beforeFind") /\ Truthy(options)
               THEN "findAll.beforeFind" ELSE "findAll.model")

findAll(options) ==
    /\ Begin("findAll", [options |-> options])
    /\ queryOptions' = IF Truthy(options) THEN options ELSE Undefined
    /\ processedData' = Undefined
    /\ Proceed(getSelectOptions,
               IF HookDefined("beforeFind") THEN "findAll.beforeFind" ELSE "findAll.model")

findAll_beforeFind ==
    /\ pc = "findAll.beforeFind"
    /\ \/ \E ret \in FindHookReturns(queryOptions) :
            /\ trace' = Append(trace, Resolved("beforeFind", [options |-> queryOptions], ret))
            /\ queryOptions' = ret
            /\ pc' = "findAll.model"
            /\ UNCHANGED outcome
       \/ \E e \in HookErrors :
            /\ Reject("beforeFind", [options |-> queryOptions], e)
            /\ UNCHANGED queryOptions
    /\ UNCHANGED <<validationVars, expressVars, orchestratorVars, suspended>>
    /\ UNCHANGED <<modelClass, prisma, op, select, processedData, result>>

findAll_model_findMany ==
    /\ pc = "findAll.model"
    /\ \/ \E raw \in RowLists :
            LET ret == Answer(raw, findManyArgs) IN
            /\ trace' = Append(trace, Resolved("model.findMany", findManyArgs, ret))
            /\ result' = IF Truthy(select) THEN ret ELSE filterHiddenFields(modelClass, ret)
            /\ IF Truthy(result') /\ HookDefined("afterFind")
               THEN pc' = "findAll.afterFind" /\ UNCHANGED outcome
               ELSE Return(result')
       \/ \E e \in PrismaErrors :
            /\ Reject("model.findMany", findManyArgs, e)
            /\ UNCHANGED result
    /\ UNCHANGED <<validationVars, expressVars, orchestratorVars, suspended>>
    /\ UNCHANGED <<modelClass, prisma, op, select, processedData, queryOptions>>

findAll_afterFind ==
    /\ pc = "findAll.afterFind"
    /\ LET args == [result |-> result] IN
       \/ \E ret \in AfterHookReturns(result) :
            /\ trace' = Append(trace, Resolved("afterFind", args, ret))
            /\ result' = ret
            /\ Return(ret)
       \/ \E e \in HookErrors :
            /\ Reject("afterFind", args, e)
            /\ UNCHANGED result
    /\ UNCHANGED <<validationVars, expressVars, orchestratorVars, suspended>>
    /\ UNCHANGED <<modelClass, prisma, op, select, processedData, queryOptions>>

\* { where: { id }, data: processedData, select } or { where: { id }, data: processedData }
updateArgs ==
    IF Truthy(select)
    THEN [where |-> [id |-> op.args.id], data |-> processedData, select |-> select]
    ELSE [where |-> [id |-> op.args.id], data |-> processedData]

update(id, data) ==
    /\ Begin("update", [id |-> id, data |-> data])
    /\ processedData' = data
    /\ queryOptions' = Undefined
    /\ Proceed(getSelectOptions,
               IF HookDefined("beforeUpdate") THEN "update.beforeUpdate" ELSE "update.model")

update_beforeUpdate ==
    /\ pc = "update.beforeUpdate"
    /\ LET args == [id |-> op.args.id, data |-> op.args.data] IN
       \/ \E ret \in DataChoices :
            /\ trace' = Append(trace, Resolved("beforeUpdate", args, ret))
            /\ processedData' = ret
            /\ pc' = "update.model"
            /\ UNCHANGED outcome
       \/ \E e \in HookErrors :
            /\ Reject("beforeUpdate", args, e)
            /\ UNCHANGED processedData
    /\ UNCHANGED <<validationVars, expressVars, orchestratorVars, suspended>>
    /\ UNCHANGED <<modelClass, prisma, op, select, queryOptions, result>>

update_model_update ==
    /\ pc = "update.model"
    /\ \/ LET ret == Answer(Row(updateArgs.where.id), updateArgs) IN
            /\ trace' = Append(trace, Resolved("model.update", updateArgs, ret))
            /\ result' = IF Truthy(select) THEN ret ELSE filterHiddenFields(modelClass, ret)
            /\ IF HookDefined("afterUpdate")
               THEN pc' = "update.afterUpdate" /\ UNCHANGED outcome
               ELSE Return(result')
       \/ \E e \in PrismaErrors :
            /\ Reject("model.update", updateArgs, e)
            /\ UNCHANGED result
    /\ UNCHANGED <<validationVars, expressVars, orchestratorVars, suspended>>
    /\ UNCHANGED <<modelClass, prisma, op, select, processedData, queryOptions>>

update_afterUpdate ==
    /\ pc = "update.afterUpdate"
    /\ LET args == [id |-> op.args.id, data |-> processedData, result |-> result] IN
       \/ \E ret \in AfterHookReturns(result) :
            /\ trace' = Append(trace, Resolved("afterUpdate", args, ret))
            /\ result' = ret
            /\ Return(ret)
       \/ \E e \in HookErrors :
            /\ Reject("afterUpdate", args, e)
            /\ UNCHANGED result
    /\ UNCHANGED <<validationVars, expressVars, orchestratorVars, suspended>>
    /\ UNCHANGED <<modelClass, prisma, op, select, processedData, queryOptions>>

\* the argument of delete built like the one of update, mask included
deleteArgs_withMask ==
    IF Truthy(getSelectOptions)
    THEN [where |-> [id |-> op.args.id], select |-> getSelectOptions]
    ELSE [where |-> [id |-> op.args.id]]

\* { where: { id } }
deleteArgs == [where |-> [id |-> op.args.id]]

delete(id) ==
    /\ Begin("delete", [id |-> id])
    /\ select' = Undefined
    /\ processedData' = Undefined
    /\ queryOptions' = Undefined
    /\ pc' = IF HookDefined("beforeDelete") THEN "delete.beforeDelete" ELSE "delete.model"
    /\ outcome' = Undefined

delete_beforeDelete ==
    /\ pc = "delete.beforeDelete"
    /\ \/ \E ret \in VoidReturns :
            /\ trace' = Append(trace, Resolved("beforeDelete", [id |-> op.args.id], ret))
            /\ pc' = "delete.model"
            /\ UNCHANGED outcome
       \/ \E e \in HookErrors :
            Reject("beforeDelete", [id |-> op.args.id], e)
    /\ UNCHANGED <<validationVars, expressVars, orchestratorVars, suspended>>
    /\ UNCHANGED <<modelClass, prisma, op, select, processedData, queryOptions, result>>

delete_model_delete ==
    /\ pc = "delete.model"
    /\ \/ LET ret == Answer(Row(deleteArgs.where.id), deleteArgs) IN
            /\ trace' = Append(trace, Resolved("model.delete", deleteArgs, ret))
            /\ result' = ret
            /\ IF HookDefined("afterDelete")
               THEN pc' = "delete.afterDelete" /\ UNCHANGED outcome
               ELSE Return(result')
       \/ \E e \in PrismaErrors :
            /\ Reject("model.delete", deleteArgs, e)
            /\ UNCHANGED result
    /\ UNCHANGED <<validationVars, expressVars, orchestratorVars, suspended>>
    /\ UNCHANGED <<modelClass, prisma, op, select, processedData, queryOptions>>

delete_afterDelete ==
    /\ pc = "delete.afterDelete"
    /\ LET args == [id |-> op.args.id, result |-> result] IN
       \/ \E ret \in AfterHookReturns(result) :
            /\ trace' = Append(trace, Resolved("afterDelete", args, ret))
            /\ result' = ret
            /\ Return(ret)
       \/ \E e \in HookErrors :
            /\ Reject("afterDelete", args, e)
            /\ UNCHANGED result
    /\ UNCHANGED <<validationVars, expressVars, orchestratorVars, suspended>>
    /\ UNCHANGED <<modelClass, prisma, op, select, processedData, queryOptions>>

\* the caller has taken the settled outcome; the locals of the call are gone
Settle ==
    /\ pc = "done"
    /\ pc' = "idle"
    /\ op' = Undefined
    /\ select' = Undefined
    /\ processedData' = Undefined
    /\ queryOptions' = Undefined
    /\ result' = Undefined
    /\ trace' = <<>>
    /\ outcome' = Undefined
    /\ UNCHANGED <<modelClass, prisma, validationVars, orchestratorVars, suspended>>

-----------------------------------------------------------------------------
(* Values of request bodies and the zod schemas that validate them *)

\* the longest length a string field is declared with; inputs run one past it
MaxLength == 2

\* a string of n characters: plain text, a date written out ('2023-01-01'),
\* or a UUID (36 characters)
Str(n, format) == [typeof |-> "string", length |-> n, format |-> format]

Num(n) == [typeof |-> "number", num |-> n]

NaN == [typeof |-> "number", nan |-> TRUE]

Bool(b) == [typeof |-> "boolean", bool |-> b]

\* new Date(...)
DateObject == [typeof |-> "object", class |-> "Date"]

UuidString == Str(36, "uuid")

DateString == Str(10, "date")

Texts == {Str(n, "text") : n \in 1 .. MaxLength + 1}

\* the values a key of a JSON body, or of an object handed to parse, can hold
JsValues == Texts \cup {UuidString, DateString, Num(1), NaN, Bool(TRUE), DateObject, Null}

Typeof(v) == IF v = Null THEN "object" ELSE v.typeof

\* a value zod treats as an object: not undefined, null or an array
IsPlainObject(v) == v # Undefined /\ v # Null /\ ~IsArray(v)

\* the object with no keys
EmptyObject == [k \in {} |-> TRUE]

\* z.string(), z.number(), z.boolean(), z.date(): a field schema is its type,
\* the checks chained onto it, and whether .optional() was applied
z_string == [type |-> "string", checks |-> {}, optional |-> FALSE]
z_number == [type |-> "number", checks |-> {}, optional |-> FALSE]
z_boolean == [type |-> "boolean", checks |-> {}, optional |-> FALSE]
z_date == [type |-> "date", checks |-> {}, optional |-> FALSE]

\* field.max(n), field.uuid(), field.optional()
z_max(field, n) == [field EXCEPT !.checks = @ \cup {[check |-> "max", value |-> n]}]
z_uuid(field) == [field EXCEPT !.checks = @ \cup {[check |-> "uuid"]}]
z_optional(field) == [field EXCEPT !.optional = TRUE]

\* z.object(shape) and schema.partial()
z_object(shape) == [shape |-> shape]
z_partial(schema) == [shape |-> [k \in DOMAIN schema.shape |-> z_optional(schema.shape[k])]]

\* does the value have the field schema's type (NaN is no number, a date must
\* be a Date object)
HasType(field, v) ==
    CASE field.type = "string" -> Typeof(v) = "string"
      [] field.type = "number" -> Typeof(v) = "number" /\ v # NaN
      [] field.type = "boolean" -> Typeof(v) = "boolean"
      [] field.type = "date" -> v = DateObject

\* the issue codes of a present value: the wrong type, or each failed check
FieldIssues(field, v) ==
    IF ~HasType(field, v) THEN {"invalid_type"}
    ELSE {c.check : c \in {d \in field.checks :
                             \/ d.check = "max" /\ v.length > d.value
                             \/ d.check = "uuid" /\ v.format # "uuid"}}

\* the issues of an input object: per key of the shape, those of the value when
\* the key is present, and invalid_type when it is absent and not optional
ObjectIssues(schema, input) ==
    UNION {IF Has(input, k)
           THEN {[path |-> k, code |-> c] : c \in FieldIssues(schema.shape[k], input[k])}
           ELSE IF schema.shape[k].optional THEN {}
           ELSE {[path |-> k, code |-> "invalid_type"]} : k \in DOMAIN schema.shape}

\* parse of a schema that lets unknown keys through
parse_passthrough(schema, input) ==
    IF ~IsPlainObject(input)
    THEN [threw |-> TRUE, value |-> ZodError({[path |-> "", code |-> "invalid_type"]})]
    ELSE IF ObjectIssues(schema, input) # {}
         THEN [threw |-> TRUE, value |-> ZodError(ObjectIssues(schema, input))]
    ELSE [threw |-> FALSE, value |-> input]

\* schema.parse(input): returns the input's declared keys (unknown keys are
\* stripped), or throws a ZodError listing the issues
parse(schema, input) ==
    IF ~IsPlainObject(input)
    THEN [threw |-> TRUE, value |-> ZodError({[path |-> "", code |-> "invalid_type"]})]
    ELSE IF ObjectIssues(schema, input) # {}
         THEN [threw |-> TRUE, value |-> ZodError(ObjectIssues(schema, input))]
    ELSE [threw |-> FALSE,
          value |-> [k \in DOMAIN schema.shape \cap DOMAIN input |-> input[k]]]

-----------------------------------------------------------------------------
(* ValidationGenerator over @Field metadata (src/src/utils/validation.ts) *)

FieldTypes == {"string", "number", "boolean", "date", "uuid"}

\* FieldOptions: type, and optionally required, length and primary
FieldOptionChoices ==
    {[type |-> t] : t \in FieldTypes}
    \cup {[type |-> t, required |-> r] : t \in FieldTypes, r \in BOOLEAN}
    \cup {[type |-> "string", length |-> n] : n \in {0, MaxLength}}
    \cup {[type |-> "number", length |-> MaxLength]}
    \cup {[type |-> t, primary |-> TRUE] : t \in {"uuid", "string"}}
    \cup {[type |-> "uuid", primary |-> FALSE],
          [type |-> "uuid", primary |-> TRUE, required |-> FALSE]}

\* the options an `id` field is declared with
IdOptionChoices ==
    {o \in FieldOptionChoices : o.type \in {"uuid", "string", "number"} /\ ~Has(o, "length")}

\* Reflect metadata of a class: none, or the options of its decorated fields
FieldMetadataChoices ==
    {Undefined}
    \cup {[k \in {"name"} |-> o] : o \in FieldOptionChoices}
    \cup {[k \in {"id"} |-> o] : o \in IdOptionChoices}
    \cup {[k \in {"id", "name"} |-> IF k = "id" THEN i ELSE o] :
            i \in IdOptionChoices, o \in FieldOptionChoices}

\* Reflect.getMetadata(FIELD_METADATA_KEY, target) || {}
getFieldMetadata == IF Truthy(fieldMetadata) THEN fieldMetadata ELSE EmptyObject

createZodField(options) ==
    LET field == CASE options.type = "string" ->
                        IF Has(options, "length") /\ options.length # 0
                        THEN z_max(z_string, options.length) ELSE z_string
                   [] options.type = "number" -> z_number
                   [] options.type = "boolean" -> z_boolean
                   [] options.type = "date" -> z_date
                   [] options.type = "uuid" -> z_uuid(z_string)
                   [] OTHER -> z_string
    IN  IF Has(options, "required") /\ options.required = FALSE
        THEN z_optional(field) ELSE field

\* options.primary && options.type === 'uuid'
IsGeneratedKey(options) ==
    Has(options, "primary") /\ options.primary /\ options.type = "uuid"

\* z.object({...}).partial(); with no metadata z.object({}).partial()
generateZodSchema ==
    z_partial(z_object([k \in DOMAIN getFieldMetadata |-> createZodField(getFieldMetadata[k])]))

\* the strict schema finished with .partial(), as the partial one is
generateStrictZodSchema_partial ==
    z_partial(z_object([k \in {f \in DOMAIN getFieldMetadata : ~IsGeneratedKey(getFieldMetadata[f])}
                          |-> createZodField(getFieldMetadata[k])]))

\* z.object({...}) over the fields that are not a primary uuid; with no
\* metadata z.object({})
generateStrictZodSchema ==
    z_object([k \in {f \in DOMAIN getFieldMetadata : ~IsGeneratedKey(getFieldMetadata[f])}
                |-> createZodField(getFieldMetadata[k])])

-----------------------------------------------------------------------------
(* ValidationGenerator over the fillable list (the version of                *)
(* src/utils/validation.ts kept as src/unnamed/part_005)                     *)

\* modelClass.fillable || []
FillableOrEmpty(m) == IF Truthy(m.fillable) THEN Elems(m.fillable) ELSE {}

\* z.object of z.string().optional() per fillable member, .partial()
Fillable_generateZodSchema(m) ==
    z_partial(z_object([k \in FillableOrEmpty(m) |-> z_optional(z_string)]))

\* the strict schema built with the optional fields of the partial one
Fillable_generateStrictZodSchema_optional(m) ==
    z_object([k \in FillableOrEmpty(m) |-> z_optional(z_string)])

\* z.object of z.string() per fillable member
Fillable_generateStrictZodSchema(m) ==
    z_object([k \in FillableOrEmpty(m) |-> z_string])

-----------------------------------------------------------------------------
(* Schemas applied to inputs *)

\* the values given to `id`
IdValues == {UuidString, Str(1, "text"), Num(1), Null}

\* the values given to `password`
PasswordValues == {Str(1, "text"), Num(1)}

InputKeys == {"id", "name", "password"}

ValuesOf(k) ==
    CASE k = "id" -> IdValues
      [] k = "name" -> JsValues
      [] OTHER -> PasswordValues

\* the objects handed to parse: over a key for each decorated field and one
\* more fillable key, each absent or holding a value
InputObjects ==
    UNION {{o \in [K -> JsValues] : \A k \in K : o[k] \in ValuesOf(k)} : K \in SUBSET InputKeys}

\* and what is no object at all
InputChoices == InputObjects \cup {Undefined, Null, Arr(<<>>)}

Validated(schemaName, schema, input) ==
    /\ validation = Undefined
    /\ validation' = [schema |-> schemaName, input |-> input, output |-> parse(schema, input)]
    /\ UNCHANGED <<repositoryVars, fieldMetadata, expressVars, orchestratorVars, suspended>>

\* crudora.getValidationSchema(modelClass).parse(input)
getValidationSchema_parse(input) ==
    Validated("generateZodSchema", generateZodSchema, input)

\* crudora.getStrictValidationSchema(modelClass).parse(input)
getStrictValidationSchema_parse(input) ==
    Validated("generateStrictZodSchema", generateStrictZodSchema, input)

\* the same two with the fillable-based generator
Fillable_getValidationSchema_parse(input) ==
    Validated("Fillable.generateZodSchema", Fillable_generateZodSchema(modelClass), input)

Fillable_getStrictValidationSchema_parse(input) ==
    Validated("Fillable.generateStrictZodSchema",
              Fillable_generateStrictZodSchema(modelClass), input)

-----------------------------------------------------------------------------

-----------------------------------------------------------------------------
(* Repository.count (src/src/core/repository.ts, lines 178-181) *)

\* the largest number of records model.count answers
MaxTotal == 11

\* count has no hooks and no mask; a handler calls it right after it has taken
\* the outcome of findAll
count(where) ==
    /\ pc \in {"idle", "done"}
    /\ op' = [name |-> "count", args |-> [where |-> where]]
    /\ trace' = <<>>
    /\ select' = Undefined
    /\ processedData' = Undefined
    /\ queryOptions' = Undefined
    /\ result' = Undefined
    /\ outcome' = Undefined
    /\ pc' = "count.model"
    /\ UNCHANGED <<modelClass, prisma, validationVars, orchestratorVars, suspended>>

count_model_count ==
    /\ pc = "count.model"
    /\ \/ \E total \in 0 .. MaxTotal :
            /\ trace' = Append(trace, Resolved("model.count", [where |-> op.args.where], Num(total)))
            /\ Return(Num(total))
       \/ \E e \in PrismaErrors :
            Reject("model.count", [where |-> op.args.where], e)
    /\ UNCHANGED <<validationVars, expressVars, orchestratorVars, suspended>>
    /\ UNCHANGED <<modelClass, prisma, op, select, processedData, queryOptions, result>>

-----------------------------------------------------------------------------
(* JavaScript numbers of the LIST handler *)

Infinity == [typeof |-> "number", infinite |-> TRUE]

IsFinite(v) == Has(v, "num")

\* the string written as the decimal digits of n ('2' for 2)
Digits(n) == [typeof |-> "string", digits |-> n]

\* Number(v): a number is itself, a string of digits is the number it spells,
\* any other string is NaN
Number(v) ==
    IF Typeof(v) = "number" THEN v
    ELSE IF Has(v, "digits") THEN Num(v.digits)
    ELSE NaN

\* a - b and a * b, for the operands met here (NaN, or finite integers)
JsMinus(a, b) == IF IsFinite(a) /\ IsFinite(b) THEN Num(a.num - b.num) ELSE NaN
JsTimes(a, b) == IF IsFinite(a) /\ IsFinite(b) THEN Num(a.num * b.num) ELSE NaN

\* Math.ceil(a / b), for a >= 0 and b >= 0: 0/0 and anything with NaN is NaN,
\* a/0 is Infinity
CeilDiv(a, b) ==
    IF ~(IsFinite(a) /\ IsFinite(b)) THEN NaN
    ELSE IF b.num = 0 THEN (IF a.num = 0 THEN NaN ELSE Infinity)
    ELSE Num((a.num + b.num - 1) \div b.num)

-----------------------------------------------------------------------------
(* The generated CRUD routes (Crudora.generateRoutes, src/src/core/crudora.ts) *)

\* res.status(status).json(json); res.json is status 200; send() has no body
Response(status, json) == [status |-> status, json |-> json]

InternalServerError == Response(500, [error |-> "Internal server error"])

\* catch (error) of the handlers that do not validate
Catch(error) == InternalServerError

\* catch (error) of POST and PUT
CatchValidation(error) ==
    IF IsZodError(error)
    THEN Response(400, [error |-> "Validation error", details |-> error.issues])
    ELSE InternalServerError

\* a request arrives while no other is being handled
Request(r) ==
    /\ handler = "none"
    /\ req = Undefined
    /\ pc = "idle"
    /\ req' = r
    /\ items' = Undefined

\* the calls so far, the last one with what its promise settled with
SettledCalls == [calls EXCEPT ![Len(calls)] = @ @@ [settled |-> outcome]]

\* the handler sends a response and is over
Respond(response) ==
    /\ res' = Append(res, response)
    /\ handler' = "none"

\* the awaited Repository call has settled; its locals are gone
Awaited(at) ==
    /\ handler = at
    /\ calls' = SettledCalls
    /\ Settle

\* const { page = 1, limit = 10, ...filters } = req.query
Page(query) == IF Has(query, "page") THEN query.page ELSE Num(1)
Limit(query) == IF Has(query, "limit") THEN query.limit ELSE Num(10)

\* the destructuring without the rest pattern: the whole query as filters
Filters_wholeQuery(query) == query

Filters(query) == [k \in DOMAIN query \ {"page", "limit"} |-> query[k]]

\* the offset taken as page * limit
Skip_pageTimesLimit(query) == JsTimes(Number(Page(query)), Number(Limit(query)))

\* (Number(page) - 1) * Number(limit)
Skip(query) == JsTimes(JsMinus(Number(Page(query)), Num(1)), Number(Limit(query)))

\* { skip, take: Number(limit), where: filters }
ListOptions(query) ==
    [skip |-> Skip(query), take |-> Number(Limit(query)), where |-> Filters(query)]

\* GET routePath
app_get_list(query) ==
    /\ Request([method |-> "GET", query |-> query])
    /\ res' = <<>>
    /\ calls' = <<[fn |-> "findAll", args |-> [options |-> ListOptions(query)]]>>
    /\ handler' = "LIST.findAll"
    /\ findAll(ListOptions(query))

\* await repository.findAll(...) settles: on to count, or to the catch block
app_get_list_findAll ==
    /\ handler = "LIST.findAll"
    /\ pc = "done"
    /\ IF outcome.threw
       THEN /\ Respond(Catch(outcome.value))
            /\ calls' = SettledCalls
            /\ Settle
            /\ UNCHANGED <<req, items>>
       ELSE /\ items' = outcome.value
            /\ calls' = Append(SettledCalls, [fn |-> "count", args |-> [where |-> Filters(req.query)]])
            /\ handler' = "LIST.count"
            /\ count(Filters(req.query))
            /\ UNCHANGED <<req, res>>

\* the pagination block of the answer
Pagination(query, total) ==
    [page |-> Number(Page(query)),
     limit |-> Number(Limit(query)),
     total |-> total,
     pages |-> CeilDiv(total, Number(Limit(query)))]

\* await repository.count(filters) settles
app_get_list_count ==
    /\ Awaited("LIST.count")
    /\ Respond(IF outcome.threw THEN Catch(outcome.value)
               ELSE Response(200, [data |-> items,
                                   pagination |-> Pagination(req.query, outcome.value)]))
    /\ UNCHANGED <<req, items>>

\* GET routePath/:id
app_get_byId(id) ==
    /\ Request([method |-> "GET", params |-> [id |-> id]])
    /\ res' = <<>>
    /\ calls' = <<[fn |-> "findById", args |-> [id |-> id]]>>
    /\ handler' = "GET_ONE.findById"
    /\ findById(id)

\* the handler answering whatever findById returned
app_get_byId_findById_no404 ==
    /\ Awaited("GET_ONE.findById")
    /\ Respond(IF outcome.threw THEN Catch(outcome.value) ELSE Response(200, outcome.value))
    /\ UNCHANGED <<req, items>>

app_get_byId_findById ==
    /\ Awaited("GET_ONE.findById")
    /\ Respond(IF outcome.threw THEN Catch(outcome.value)
               ELSE IF ~Truthy(outcome.value) THEN Response(404, [error |-> "Not found"])
               ELSE Response(200, outcome.value))
    /\ UNCHANGED <<req, items>>

\* a handler that validates the body and hands the body itself, not the
\* validated data, to the Repository
Validate_rawBody(schema, body, fn, args, at) ==
    IF parse(schema, body).threw
    THEN /\ res' = <<CatchValidation(parse(schema, body).value)>>
         /\ handler' = "none"
         /\ calls' = <<>>
         /\ UNCHANGED <<repositoryVars, validationVars, orchestratorVars, suspended>>
    ELSE /\ res' = <<>>
         /\ handler' = at
         /\ calls' = <<[fn |-> fn, args |-> args @@ [data |-> body]]>>
         /\ IF fn = "create" THEN create(body) ELSE update(args.id, body)

\* a handler that validates the body with `schema` and hands the validated data
\* to create (update when the request has an id)
Validate(schema, body, fn, args, at) ==
    IF parse(schema, body).threw
    THEN /\ res' = <<CatchValidation(parse(schema, body).value)>>
         /\ handler' = "none"
         /\ calls' = <<>>
         /\ UNCHANGED <<repositoryVars, validationVars, orchestratorVars, suspended>>
    ELSE /\ res' = <<>>
         /\ handler' = at
         /\ calls' = <<[fn |-> fn, args |-> args @@ [data |-> parse(schema, body).value]]>>
         /\ IF fn = "create" THEN create(parse(schema, body).value)
            ELSE update(args.id, parse(schema, body).value)

\* POST validating with the partial schema
app_post_partialSchema(body) ==
    /\ Request([method |-> "POST", body |-> body])
    /\ Validate(generateZodSchema, body, "create", EmptyObject, "POST.create")

\* POST routePath
app_post(body) ==
    /\ Request([method |-> "POST", body |-> body])
    /\ Validate(generateStrictZodSchema, body, "create", EmptyObject, "POST.create")

app_post_create ==
    /\ Awaited("POST.create")
    /\ Respond(IF outcome.threw THEN CatchValidation(outcome.value)
               ELSE Response(201, outcome.value))
    /\ UNCHANGED <<req, items>>

\* PUT validating with the strict schema
app_put_strictSchema(id, body) ==
    /\ Request([method |-> "PUT", params |-> [id |-> id], body |-> body])
    /\ Validate(generateStrictZodSchema, body, "update", [id |-> id], "PUT.update")

\* PUT routePath/:id
app_put(id, body) ==
    /\ Request([method |-> "PUT", params |-> [id |-> id], body |-> body])
    /\ Validate(generateZodSchema, body, "update", [id |-> id], "PUT.update")

app_put_update ==
    /\ Awaited("PUT.update")
    /\ Respond(IF outcome.threw THEN CatchValidation(outcome.value)
               ELSE Response(200, outcome.value))
    /\ UNCHANGED <<req, items>>

\* DELETE routePath/:id
app_delete(id) ==
    /\ Request([method |-> "DELETE", params |-> [id |-> id]])
    /\ res' = <<>>
    /\ calls' = <<[fn |-> "delete", args |-> [id |-> id]]>>
    /\ handler' = "DELETE.delete"
    /\ delete(id)

\* DELETE setting the status of the success answer without sending it
app_delete_delete_statusOnly ==
    /\ Awaited("DELETE.delete")
    /\ IF outcome.threw THEN Respond(Catch(outcome.value))
       ELSE handler' = "none" /\ UNCHANGED res
    /\ UNCHANGED <<req, items>>

app_delete_delete ==
    /\ Awaited("DELETE.delete")
    /\ Respond(IF outcome.threw THEN Catch(outcome.value) ELSE Response(204, Undefined))
    /\ UNCHANGED <<req, items>>

\* the response has gone out to the client: the request is over
res_finish ==
    /\ handler = "none"
    /\ res # <<>>
    /\ req' = Undefined
    /\ res' = <<>>
    /\ calls' = <<>>
    /\ items' = Undefined
    /\ UNCHANGED <<handler, repositoryVars, validationVars, orchestratorVars, suspended>>

\* no schema applied and no request handled
Quiet ==
    /\ validation = Undefined
    /\ req = Undefined
    /\ res = <<>>
    /\ handler = "none"
    /\ calls = <<>>
    /\ items = Undefined

\* no orchestrator constructed, nothing mounted, no other request in flight
Unmounted ==
    /\ crudora = Undefined
    /\ app = <<>>
    /\ setup = <<>>
    /\ last = Undefined
    /\ suspended = Undefined

\* no Repository operation in flight
Idle ==
    /\ pc = "idle"
    /\ op = Undefined
    /\ select = Undefined
    /\ processedData = Undefined
    /\ queryOptions = Undefined
    /\ result = Undefined
    /\ trace = <<>>
    /\ outcome = Undefined

\* the Repository called directly, as the unit tests do
Init ==
    /\ modelClass \in ModelClasses
    /\ prisma \in PrismaClients
    /\ fieldMetadata = Undefined
    /\ Idle
    /\ Quiet
    /\ Unmounted

Next ==
    \/ \E data \in DataChoices : create(data) /\ UNCHANGED expressVars
    \/ create_beforeCreate
    \/ create_model_create
    \/ create_afterCreate
    \/ \E id \in Ids : findById(id) /\ UNCHANGED expressVars
    \/ findById_beforeFind
    \/ findById_model_findUnique
    \/ findById_afterFind
    \/ \E options \in OptionChoices : findAll(options) /\ UNCHANGED expressVars
    \/ findAll_beforeFind
    \/ findAll_model_findMany
    \/ findAll_afterFind
    \/ \E id \in Ids, data \in DataChoices : update(id, data) /\ UNCHANGED expressVars
    \/ update_beforeUpdate
    \/ update_model_update
    \/ update_afterUpdate
    \/ \E id \in Ids : delete(id) /\ UNCHANGED expressVars
    \/ delete_beforeDelete
    \/ delete_model_delete
    \/ delete_afterDelete
    \/ Settle /\ UNCHANGED expressVars

Spec == Init /\ [][Next]_vars

\* the model classes the schemas are built for: the fillable list varies
ValidationModelClasses ==
    {m \in ModelClasses : m.primaryKey = "" /\ m.timestamps /\ m.hidden = Undefined /\ m.hooks = {}}

\* the schemas of a model class applied to inputs. The metadata-based generator
\* never reads fillable and the fillable-based one never reads the metadata:
\* the configurations vary one of the two at a time.
InitValidation ==
    /\ modelClass \in ValidationModelClasses
    /\ prisma = [dmmf |-> Undefined]
    /\ fieldMetadata \in FieldMetadataChoices
    /\ fieldMetadata = Undefined \/ modelClass.fillable = Undefined
    /\ Idle
    /\ Quiet
    /\ Unmounted

NextValidation ==
    \/ \E input \in InputChoices : getValidationSchema_parse(input)
    \/ \E input \in InputChoices : getStrictValidationSchema_parse(input)
    \/ \E input \in InputChoices : Fillable_getValidationSchema_parse(input)
    \/ \E input \in InputChoices : Fillable_getStrictValidationSchema_parse(input)

SpecValidation == InitValidation /\ [][NextValidation]_vars

-----------------------------------------------------------------------------
(* Requests to the generated routes *)

\* the largest page and the largest limit a query asks for
MaxPage == 2
MaxLimit == 3

\* req.query: page and limit, each absent, a number written out or some other
\* text, and a filter on name
QueryChoices ==
    UNION {{q \in [K -> {Digits(n) : n \in 0 .. MaxLimit} \cup {Str(1, "text")}] :
              /\ "page" \in K => (Has(q.page, "digits") => q.page.digits <= MaxPage)
              /\ "name" \in K => q.name = Str(1, "text")} :
           K \in SUBSET {"page", "limit", "name"}}

\* req.body: an object over id, name and password, an array, or nothing (no
\* body parser in front of the route)
BodyChoices ==
    {o \in InputObjects :
        /\ Has(o, "id") => o.id \in {UuidString, Num(1)}
        /\ Has(o, "name") => o.name \in {Str(1, "text"), Str(MaxLength + 1, "text"), Num(1)}
        /\ Has(o, "password") => o.password = Str(1, "text")}
    \cup {Arr(<<>>), Undefined}

\* the registered model classes: with every hook or none, with or without a
\* hidden field
RouteModelClasses ==
    {m \in ModelClasses :
        /\ m.primaryKey = "" /\ m.timestamps
        /\ m.fillable = ListOf({"name", "password"})
        /\ m.hidden \in {Undefined, ListOf({"password"})}
        /\ m.hooks \in {HookNames, {}}}

\* their @Field metadata: none, or id and name declared in one of three ways
RouteMetadataChoices ==
    {Undefined,
     [id |-> [type |-> "uuid", primary |-> TRUE],
      name |-> [type |-> "string", length |-> MaxLength]],
     [id |-> [type |-> "uuid", primary |-> TRUE],
      name |-> [type |-> "string", required |-> FALSE]],
     [id |-> [type |-> "uuid"],
      name |-> [type |-> "number", required |-> TRUE]]}

InitRoutes ==
    /\ modelClass \in RouteModelClasses
    /\ prisma = [dmmf |-> Undefined]
    /\ fieldMetadata \in RouteMetadataChoices
    /\ Idle
    /\ Quiet
    /\ Unmounted

NextRoutes ==
    \/ \E query \in QueryChoices : app_get_list(query)
    \/ app_get_list_findAll
    \/ app_get_list_count
    \/ \E id \in Ids : app_get_byId(id)
    \/ app_get_byId_findById
    \/ \E body \in BodyChoices : app_post(body)
    \/ app_post_create
    \/ \E id \in Ids, body \in BodyChoices : app_put(id, body)
    \/ app_put_update
    \/ \E id \in Ids : app_delete(id)
    \/ app_delete_delete
    \/ create_beforeCreate
    \/ create_model_create
    \/ create_afterCreate
    \/ findById_beforeFind
    \/ findById_model_findUnique
    \/ findById_afterFind
    \/ findAll_beforeFind
    \/ findAll_model_findMany
    \/ findAll_afterFind
    \/ update_beforeUpdate
    \/ update_model_update
    \/ update_afterUpdate
    \/ delete_beforeDelete
    \/ delete_model_delete
    \/ delete_afterDelete
    \/ count_model_count
    \/ res_finish

SpecRoutes == InitRoutes /\ [][NextRoutes]_vars

-----------------------------------------------------------------------------
(* The orchestrator (Crudora, src/src/core/crudora.ts) *)

\* the calls that register models and routes in one run of a program
MaxSetup == 3

\* a Map: its entries in insertion order
NewMap == [entries |-> <<>>]

MapKeys(map) == {map.entries[i].key : i \in DOMAIN map.entries}

MapHas(map, key) == key \in MapKeys(map)

\* Map.prototype.get: undefined when the key is absent
MapGet(map, key) ==
    IF MapHas(map, key)
    THEN map.entries[CHOOSE i \in DOMAIN map.entries : map.entries[i].key = key].value
    ELSE Undefined

\* a Map whose set keeps the value the key was first given
MapSet_keepFirst(map, key, value) ==
    IF MapHas(map, key) THEN map
    ELSE [entries |-> Append(map.entries, [key |-> key, value |-> value])]

\* Map.prototype.set: a new key is appended, a known key keeps its place and
\* gets the new value
MapSet(map, key, value) ==
    IF MapHas(map, key)
    THEN [entries |-> [i \in DOMAIN map.entries |->
                          IF map.entries[i].key = key
                          THEN [key |-> key, value |-> value]
                          ELSE map.entries[i]]]
    ELSE [entries |-> Append(map.entries, [key |-> key, value |-> value])]

ClassNames == {"User", "Post"}

\* String.prototype.toLowerCase on the class names
toLowerCase(name) == CASE name = "User" -> "user" [] name = "Post" -> "post"

\* the metadata the @Model(options) decorator stores for a class
ModelDecorator(name, options) ==
    [tableName |-> IF Has(options, "tableName") /\ options.tableName # ""
                   THEN options.tableName ELSE toLowerCase(name),
     timestamps |-> ~(Has(options, "timestamps") /\ options.timestamps = FALSE)]

\* the classes a program registers: User with a static tableName, Post with
\* the derived name, and a second class named User that carries @Model
\* metadata and no static tableName ("" stands for the unset value)
OrchestratorModelClasses ==
    {[name |-> "User", tableName |-> "users", metadata |-> Undefined],
     [name |-> "Post", tableName |-> "", metadata |-> Undefined],
     [name |-> "User", tableName |-> "",
      metadata |-> ModelDecorator("User", [tableName |-> "people"])]}

\* Model.getTableName
getTableName(m) == IF m.tableName # "" THEN m.tableName ELSE toLowerCase(m.name) \o "s"

getModelMetadata(m) == m.metadata

\* the two Repository classes of repository.ts; `created` numbers the
\* registration that built the instance
Repository_constructor(m, p, n) ==
    [prisma |-> p, modelClass |-> m, modelName |-> getTableName(m), created |-> n]

Metadata_Repository_constructor(m, p, n) ==
    [prisma |-> p, modelClass |-> m,
     modelName |-> IF Truthy(getModelMetadata(m)) /\ getModelMetadata(m).tableName # ""
                   THEN getModelMetadata(m).tableName
                   ELSE getTableName(m),
     created |-> n]

RepositoryClasses == {"Repository", "Metadata_Repository"}

NewRepository(class, m, p, n) ==
    IF class = "Repository" THEN Repository_constructor(m, p, n)
    ELSE Metadata_Repository_constructor(m, p, n)

\* what a call of the orchestrator came to
Outcome(fn, args, threw, value) == [fn |-> fn, args |-> args, threw |-> threw, value |-> value]

\* new Crudora(prisma)
new_Crudora(p) ==
    /\ crudora = Undefined
    /\ IF ~Truthy(p)
       THEN /\ last' = Outcome("constructor", [prisma |-> p], TRUE, Err("PrismaClient is required"))
            /\ UNCHANGED crudora
       ELSE /\ crudora' = [prisma |-> p, models |-> NewMap, repositories |-> NewMap,
                           customRoutes |-> Arr(<<>>)]
            /\ last' = Outcome("constructor", [prisma |-> p], FALSE, Undefined)
    /\ UNCHANGED <<app, setup, suspended, repositoryVars, validationVars, expressVars>>

\* the maps after the loop of registerModel over modelClasses[i..]
RECURSIVE Registered(_, _, _, _, _)
Registered(c, class, modelClasses, i, n) ==
    IF i > Len(modelClasses) THEN c
    ELSE Registered(
            [c EXCEPT !.models = MapSet(@, modelClasses[i].name, modelClasses[i]),
                      !.repositories = MapSet(@, modelClasses[i].name,
                                              NewRepository(class, modelClasses[i], c.prisma, n))],
            class, modelClasses, i + 1, n)

\* crudora.registerModel(...modelClasses)
registerModel(modelClasses) ==
    /\ Truthy(crudora)
    /\ Len(setup) < MaxSetup
    /\ \E class \in RepositoryClasses :
          crudora' = Registered(crudora, class, modelClasses, 1, Len(setup) + 1)
    /\ setup' = Append(setup, [fn |-> "registerModel", args |-> modelClasses])
    /\ last' = Undefined
    /\ UNCHANGED <<app, suspended, repositoryVars, validationVars, expressVars>>

\* a lookup that builds the repository it does not find
getRepository_createsMissing(m) ==
    /\ Truthy(crudora)
    /\ IF ~Truthy(MapGet(crudora.repositories, m.name))
       THEN /\ crudora' = [crudora EXCEPT !.repositories =
                               MapSet(@, m.name,
                                      Repository_constructor(m, crudora.prisma, Len(setup)))]
            /\ last' = Outcome("getRepository", [modelClass |-> m], FALSE,
                               Repository_constructor(m, crudora.prisma, Len(setup)))
       ELSE /\ last' = Outcome("getRepository", [modelClass |-> m], FALSE,
                               MapGet(crudora.repositories, m.name))
            /\ UNCHANGED crudora
    /\ UNCHANGED <<app, setup, suspended, repositoryVars, validationVars, expressVars>>

\* crudora.getRepository(modelClass)
getRepository(m) ==
    /\ Truthy(crudora)
    /\ last' = (IF ~Truthy(MapGet(crudora.repositories, m.name))
                THEN Outcome("getRepository", [modelClass |-> m], TRUE,
                             Err("Repository not found"))
                ELSE Outcome("getRepository", [modelClass |-> m], FALSE,
                             MapGet(crudora.repositories, m.name)))
    /\ UNCHANGED <<crudora, app, setup, suspended, repositoryVars, validationVars, expressVars>>

\* this.customRoutes.push({ method, path, handler }); return this
customRoute(method, path, h) ==
    /\ Truthy(crudora)
    /\ Len(setup) < MaxSetup
    /\ crudora' = [crudora EXCEPT !.customRoutes =
                      Arr(Append(@.items, [method |-> method, path |-> path, handler |-> h]))]
    /\ setup' = Append(setup, [fn |-> "customRoute",
                                args |-> [method |-> method, path |-> path, handler |-> h]])
    /\ last' = Undefined
    /\ UNCHANGED <<app, suspended, repositoryVars, validationVars, expressVars>>

\* crudora.get / post / put / delete / patch (path, handler)
Crudora_get(path, h) == customRoute("GET", path, h)
Crudora_post(path, h) == customRoute("POST", path, h)
Crudora_put(path, h) == customRoute("PUT", path, h)
Crudora_delete(path, h) == customRoute("DELETE", path, h)
Crudora_patch(path, h) == customRoute("PATCH", path, h)

-----------------------------------------------------------------------------
(* Route generation and the routing of the Express application *)

\* the default basePath '/api'; a path is the sequence of its segments
BasePath == <<"api">>

\* a mounted route of a model: the handler's closure holds the model class and
\* the repository that getRepository returned for it
CrudLayer(method, path, route, m, repository) ==
    [method |-> method, path |-> path, type |-> "CRUD", route |-> route,
     modelClass |-> m, repository |-> repository]

\* a mounted custom route: the handler as it was registered
CustomLayer(method, path, h) ==
    [method |-> method, path |-> path, type |-> "Custom", handler |-> h]

\* the five routes of one entry of this.models, in the order they are mounted
CrudLayers(c, basePath, m) ==
    LET repository == MapGet(c.repositories, m.name)
        routePath == basePath \o <<getTableName(m)>>
    IN  <<CrudLayer("GET", routePath, "LIST", m, repository),
          CrudLayer("GET", routePath \o <<":id">>, "GET_ONE", m, repository),
          CrudLayer("POST", routePath, "CREATE", m, repository),
          CrudLayer("PUT", routePath \o <<":id">>, "UPDATE", m, repository),
          CrudLayer("DELETE", routePath \o <<":id">>, "DELETE", m, repository)>>

\* for (const [modelName, modelClass] of this.models): entries i.. of the map
RECURSIVE ModelLayers(_, _, _)
ModelLayers(c, basePath, i) ==
    IF i > Len(c.models.entries) THEN <<>>
    ELSE CrudLayers(c, basePath, c.models.entries[i].value) \o ModelLayers(c, basePath, i + 1)

\* for (const route of this.customRoutes): the switch mounts the five methods
CustomLayers(c, basePath) ==
    [i \in DOMAIN SelectSeq(c.customRoutes.items,
                            LAMBDA r : r.method \in {"GET", "POST", "PUT", "DELETE", "PATCH"}) |->
        LET route == SelectSeq(c.customRoutes.items,
                               LAMBDA r : r.method \in {"GET", "POST", "PUT", "DELETE", "PATCH"})[i]
        IN  CustomLayer(route.method, basePath \o route.path, route.handler)]

\* what one call of generateRoutes mounts
Mounted(c, basePath) == ModelLayers(c, basePath, 1) \o CustomLayers(c, basePath)

\* crudora.generateRoutes(app, basePath)
generateRoutes(basePath) ==
    /\ Truthy(crudora)
    /\ Len(setup) < MaxSetup
    /\ app' = app \o Mounted(crudora, basePath)
    /\ setup' = Append(setup, [fn |-> "generateRoutes", args |-> [basePath |-> basePath],
                               mounted |-> Mounted(crudora, basePath)])
    /\ last' = Undefined
    /\ UNCHANGED <<crudora, suspended, repositoryVars, validationVars, expressVars>>

\* a segment of a route path that names a parameter matches any segment
ParamSegments == {":id"}

Matches(pattern, path) ==
    /\ Len(pattern) = Len(path)
    /\ \A i \in DOMAIN pattern : pattern[i] \in ParamSegments \/ pattern[i] = path[i]

\* Express answers a request no route matches with 404
NotFound == [type |-> "NotFound"]

\* the route that handles a request: the first mounted route whose method and
\* path match (the handlers answer without calling next)
Dispatch(routes, method, path) ==
    LET hits == {i \in DOMAIN routes :
                    routes[i].method = method /\ Matches(routes[i].path, path)}
    IN  IF hits = {} THEN NotFound
        ELSE routes[CHOOSE i \in hits : \A j \in hits : i <= j]

\* a request reaches the application
app_handle(method, path) ==
    /\ last' = Outcome("handle", [method |-> method, path |-> path], FALSE,
                       Dispatch(app, method, path))
    /\ UNCHANGED <<crudora, app, setup, suspended, repositoryVars, validationVars, expressVars>>

-----------------------------------------------------------------------------
(* Programs setting the orchestrator up *)

\* what new Crudora is given
PrismaArguments == {Undefined, Null, [dmmf |-> Undefined]}

\* the arguments of one registerModel call
RegisterChoices ==
    {<<m>> : m \in OrchestratorModelClasses}
    \cup {<<m1, m2>> : m1 \in {m \in OrchestratorModelClasses : m.tableName = "users"},
                       m2 \in {m \in OrchestratorModelClasses : m.name = "Post"}}

\* the custom routes a program registers, by method
CustomRouteChoices ==
    {[method |-> "GET", path |-> <<"users", "search">>, handler |-> "searchUsers"],
     [method |-> "GET", path |-> <<"custom">>, handler |-> "custom"],
     [method |-> "POST", path |-> <<"auth", "login">>, handler |-> "loginHandler"],
     [method |-> "PUT", path |-> <<"users", ":id", "activate">>, handler |-> "activateUser"],
     [method |-> "DELETE", path |-> <<"sessions">>, handler |-> "logoutHandler"],
     [method |-> "PATCH", path |-> <<"users", ":id">>, handler |-> "patchUser"]}

RoutesOf(method) == {r \in CustomRouteChoices : r.method = method}

\* the requests sent to the application
RequestChoices ==
    {[method |-> "GET", path |-> p] :
        p \in {<<"api">>, <<"api", "users">>, <<"api", "users", "search">>,
               <<"api", "users", "1">>, <<"api", "custom">>, <<"api", "posts">>,
               <<"api", "people">>}}
    \cup {[method |-> "POST", path |-> <<"api", "users">>],
          [method |-> "POST", path |-> <<"api", "auth", "login">>],
          [method |-> "PUT", path |-> <<"api", "users", "1">>],
          [method |-> "PUT", path |-> <<"api", "users", "1", "activate">>],
          [method |-> "DELETE", path |-> <<"api", "users", "1">>],
          [method |-> "DELETE", path |-> <<"api", "sessions">>],
          [method |-> "PATCH", path |-> <<"api", "users", "1">>]}

\* the Repository of the other specifications is not exercised here
PlainModelClass ==
    [name |-> "User", primaryKey |-> "", timestamps |-> TRUE, fillable |-> Undefined,
     hidden |-> Undefined, hooks |-> {}]

InitOrchestrator ==
    /\ modelClass = PlainModelClass
    /\ prisma = [dmmf |-> Undefined]
    /\ fieldMetadata = Undefined
    /\ Idle
    /\ Quiet
    /\ Unmounted

NextOrchestrator ==
    \/ \E p \in PrismaArguments : new_Crudora(p)
    \/ \E modelClasses \in RegisterChoices : registerModel(modelClasses)
    \/ \E m \in OrchestratorModelClasses : getRepository(m)
    \/ \E r \in RoutesOf("GET") : Crudora_get(r.path, r.handler)
    \/ \E r \in RoutesOf("POST") : Crudora_post(r.path, r.handler)
    \/ \E r \in RoutesOf("PUT") : Crudora_put(r.path, r.handler)
    \/ \E r \in RoutesOf("DELETE") : Crudora_delete(r.path, r.handler)
    \/ \E r \in RoutesOf("PATCH") : Crudora_patch(r.path, r.handler)
    \/ generateRoutes(BasePath)
    \/ \E r \in RequestChoices : app_handle(r.method, r.path)

SpecOrchestrator == InitOrchestrator /\ [][NextOrchestrator]_vars

-----------------------------------------------------------------------------
(* Requests handled concurrently (one thread, interleaved at the awaits) *)

\* the locals of the handler that is running and of the Repository operation
\* it awaits
Running ==
    [pc |-> pc, op |-> op, select |-> select, processedData |-> processedData,
     queryOptions |-> queryOptions, result |-> result, trace |-> trace,
     outcome |-> outcome, req |-> req, res |-> res, handler |-> handler,
     calls |-> calls, items |-> items]

\* no request in the slot
NoRequest ==
    [pc |-> "idle", op |-> Undefined, select |-> Undefined, processedData |-> Undefined,
     queryOptions |-> Undefined, result |-> Undefined, trace |-> <<>>,
     outcome |-> Undefined, req |-> Undefined, res |-> <<>>, handler |-> "none",
     calls |-> <<>>, items |-> Undefined]

\* a LIST handler whose `items` is declared outside the handler function: the
\* one variable serves every request
Switch_itemsShared ==
    /\ Running # suspended
    /\ pc' = suspended.pc
    /\ op' = suspended.op
    /\ select' = suspended.select
    /\ processedData' = suspended.processedData
    /\ queryOptions' = suspended.queryOptions
    /\ result' = suspended.result
    /\ trace' = suspended.trace
    /\ outcome' = suspended.outcome
    /\ req' = suspended.req
    /\ res' = suspended.res
    /\ handler' = suspended.handler
    /\ calls' = suspended.calls
    /\ items' = items
    /\ suspended' = [Running EXCEPT !.items = suspended.items]
    /\ UNCHANGED <<modelClass, prisma, validationVars, orchestratorVars>>

\* the running handler waits at its await and the event loop goes on with the
\* other request: each handler invocation and each Repository call has its own
\* locals (const/let inside the async functions), this.modelClass, this.prisma
\* and the orchestrator's maps are the only values both see
Switch ==
    /\ Running # suspended
    /\ pc' = suspended.pc
    /\ op' = suspended.op
    /\ select' = suspended.select
    /\ processedData' = suspended.processedData
    /\ queryOptions' = suspended.queryOptions
    /\ result' = suspended.result
    /\ trace' = suspended.trace
    /\ outcome' = suspended.outcome
    /\ req' = suspended.req
    /\ res' = suspended.res
    /\ handler' = suspended.handler
    /\ calls' = suspended.calls
    /\ items' = suspended.items
    /\ suspended' = Running
    /\ UNCHANGED <<modelClass, prisma, validationVars, orchestratorVars>>

\* the model the server registers: every hook defined, password hidden
ConcurrentModelClasses ==
    {m \in RouteModelClasses : m.hooks = HookNames /\ Truthy(m.hidden)}

\* new Crudora(prisma).registerModel(User) at startup
Startup ==
    Registered([prisma |-> [dmmf |-> Undefined], models |-> NewMap,
                repositories |-> NewMap, customRoutes |-> Arr(<<>>)],
               "Repository",
               <<[name |-> "User", tableName |-> "users", metadata |-> Undefined]>>, 1, 1)

\* the requests the clients send
ConcurrentQueries == {EmptyObject, [name |-> Str(1, "text")]}
ConcurrentBodies == {[name |-> Str(1, "text")], EmptyObject}
ConcurrentIds == {1}

\* the server after startup: the model registered and its routes mounted, no
\* request in flight
InitConcurrent ==
    /\ modelClass \in ConcurrentModelClasses
    /\ prisma = [dmmf |-> Undefined]
    /\ fieldMetadata = Undefined
    /\ Idle
    /\ Quiet
    /\ crudora = Startup
    /\ app = Mounted(Startup, BasePath)
    /\ setup = <<[fn |-> "registerModel",
                  args |-> <<[name |-> "User", tableName |-> "users", metadata |-> Undefined]>>],
                 [fn |-> "generateRoutes", args |-> [basePath |-> BasePath],
                  mounted |-> Mounted(Startup, BasePath)]>>
    /\ last = Undefined
    /\ suspended = NoRequest

NextConcurrent ==
    \/ \E query \in ConcurrentQueries : app_get_list(query)
    \/ app_get_list_findAll
    \/ app_get_list_count
    \/ \E id \in ConcurrentIds : app_get_byId(id)
    \/ app_get_byId_findById
    \/ \E body \in ConcurrentBodies : app_post(body)
    \/ app_post_create
    \/ \E id \in ConcurrentIds, body \in ConcurrentBodies : app_put(id, body)
    \/ app_put_update
    \/ \E id \in ConcurrentIds : app_delete(id)
    \/ app_delete_delete
    \/ create_beforeCreate
    \/ create_model_create
    \/ create_afterCreate
    \/ findById_beforeFind
    \/ findById_model_findUnique
    \/ findById_afterFind
    \/ findAll_beforeFind
    \/ findAll_model_findMany
    \/ findAll_afterFind
    \/ update_beforeUpdate
    \/ update_model_update
    \/ update_afterUpdate
    \/ delete_beforeDelete
    \/ delete_model_delete
    \/ delete_afterDelete
    \/ count_model_count
    \/ res_finish
    \/ Switch

SpecConcurrent == InitConcurrent /\ [][NextConcurrent]_vars

-----------------------------------------------------------------------------
(* Vocabulary of the properties *)

Done == pc = "done"
Returned == pc = "done" /\ ~outcome.threw
Threw == pc = "done" /\ outcome.threw

\* the names of the awaited calls so far, in order
Fns == [i \in DOMAIN trace |-> trace[i].fn]

PersistenceFns == {"model.create", "model.findUnique", "model.findMany",
                   "model.update", "model.delete"}

PersistenceCalls == {i \in DOMAIN trace : trace[i].fn \in PersistenceFns}

AfterCalls == {i \in DOMAIN trace : trace[i].fn \in HookNames \ BeforeHooks}

IsPrefix(s, t) == Len(s) <= Len(t) /\ \A i \in DOMAIN s : s[i] = t[i]

\* the order the contract gives the awaited calls of an operation
ExpectedCalls(name) ==
    CASE name = "create"   -> <<"beforeCreate", "model.create", "afterCreate">>
      [] name = "findById" -> <<"beforeFind", "model.findUnique", "afterFind">>
      [] name = "findAll"  -> <<"beforeFind", "model.findMany", "afterFind">>
      [] name = "update"   -> <<"beforeUpdate", "model.update", "afterUpdate">>
      [] name = "delete"   -> <<"beforeDelete", "model.delete", "afterDelete">>

HiddenSet == IF Truthy(modelClass.hidden) THEN Elems(modelClass.hidden) ELSE {}
FillableSet == IF Truthy(modelClass.fillable) THEN Elems(modelClass.fillable) ELSE {}

\* the keys of a record, and of every record of a list
KeysOf(v) ==
    IF ~Truthy(v) THEN {}
    ELSE IF IsArray(v) THEN UNION {DOMAIN v.items[i] : i \in DOMAIN v.items}
    ELSE DOMAIN v

\* v without the hidden keys (a record, or every record of a list)
Visible(v) ==
    IF ~Truthy(v) THEN v
    ELSE IF IsArray(v)
         THEN Arr([i \in DOMAIN v.items |->
                     [k \in DOMAIN v.items[i] \ HiddenSet |-> v.items[i][k]]])
    ELSE [k \in DOMAIN v \ HiddenSet |-> v[k]]

\* every after-hook called so far resolved to the result it was given
AfterHooksIdentity == \A i \in AfterCalls : ~trace[i].threw => trace[i].ret = trace[i].args.result

-----------------------------------------------------------------------------
(* Properties *)

\* C1: on a model that defines all eight hooks, the awaited calls of an
\* operation are, in this order and each at most once, its before-hook, its
\* persistence call and its after-hook; an operation that returns has made all
\* three (findById without afterFind when the record is null), also findAll
\* called without options.
C1_HookOrder ==
    (modelClass.hooks = HookNames /\ pc # "idle") =>
        /\ IsPrefix(Fns, ExpectedCalls(op.name))
        /\ \A i \in DOMAIN trace : trace[i].threw => (i = Len(trace) /\ Threw)
        /\ Returned =>
             IF op.name = "findById" /\ trace[2].ret = Null
             THEN Fns = <<"beforeFind", "model.findUnique">>
             ELSE Fns = ExpectedCalls(op.name)

C1_Witness ==
    /\ modelClass.hooks = HookNames
    /\ Returned
    /\ op.name = "findAll"
    /\ op.args.options = Undefined
    /\ Fns = <<"beforeFind", "model.findMany", "afterFind">>

\* C2: in create and update the persistence call carries the data the
\* before-hook resolved to (the caller's data only when there is no before-hook),
\* the after-hook is given that same data and the persistence result without
\* the hidden keys, and the caller gets what the after-hook resolved to.
C2_ProcessedDataFlow ==
    (pc # "idle" /\ op.name \in {"create", "update"}) =>
        LET before == ExpectedCalls(op.name)[1]
            model == ExpectedCalls(op.name)[2]
            after == ExpectedCalls(op.name)[3]
        IN  /\ \A i \in DOMAIN trace :
                 /\ trace[i].fn = model =>
                      IF HookDefined(before)
                      THEN i = 2 /\ trace[1].fn = before /\ trace[i].args.data = trace[1].ret
                      ELSE i = 1 /\ trace[i].args.data = op.args.data
                 /\ trace[i].fn = after =>
                      /\ i > 1
                      /\ trace[i - 1].fn = model
                      /\ trace[i].args.data = trace[i - 1].args.data
                      /\ trace[i].args.result = Visible(trace[i - 1].ret)
            /\ (Returned /\ HookDefined(after)) =>
                 /\ trace[Len(trace)].fn = after
                 /\ outcome.value = trace[Len(trace)].ret

C2_Witness ==
    /\ Returned
    /\ op.name = "create"
    /\ Fns = <<"beforeCreate", "model.create", "afterCreate">>
    /\ trace[1].ret # op.args.data
    /\ trace[2].args.data = trace[1].ret
    /\ trace[3].ret # trace[2].ret
    /\ outcome.value = trace[3].ret

\* C3: with a non-empty hidden list and after-hooks that resolve to the result
\* they are given, no record that create, findById, findAll or update returns
\* (no element of the list, for findAll) has a hidden key, whatever the
\* before-hooks resolved to and whether or not a mask was passed.
C3_NoHiddenKeyReturned ==
    (/\ Returned
     /\ op.name \in {"create", "findById", "findAll", "update"}
     /\ ~NoHidden(modelClass)
     /\ AfterHooksIdentity)
        => KeysOf(outcome.value) \cap HiddenSet = {}

\* the post-fetch path: no mask, the stored records carry a hidden key
C3_Witness ==
    /\ Returned
    /\ op.name = "findAll"
    /\ ~NoHidden(modelClass)
    /\ select = Undefined
    /\ AfterHooksIdentity
    /\ Fns = <<"beforeFind", "model.findMany">>
    /\ trace[1].ret # trace[1].args.options
    /\ Len(trace[2].ret.items) = NumRows
    /\ KeysOf(trace[2].ret) \cap HiddenSet # {}
    /\ KeysOf(outcome.value) # {}

\* the projection path: a mask was passed to the persistence call
C3_WitnessMask ==
    /\ Returned
    /\ op.name = "update"
    /\ ~NoHidden(modelClass)
    /\ Truthy(select)
    /\ "select" \in DOMAIN trace[Len(trace)].args
    /\ KeysOf(outcome.value) # {}

\* C4: with an empty or undefined hidden list there is no mask, no persistence
\* call carries a select, and with after-hooks that resolve to the result they
\* are given create, findById, findAll and update return the persistence
\* result itself.
C4_NoHiddenNoMask ==
    (NoHidden(modelClass) /\ pc # "idle") =>
        /\ getSelectOptions = Undefined
        /\ select = Undefined
        /\ \A i \in PersistenceCalls : "select" \notin DOMAIN trace[i].args
        /\ (/\ Returned
            /\ op.name \in {"create", "findById", "findAll", "update"}
            /\ AfterHooksIdentity) =>
               /\ Cardinality(PersistenceCalls) = 1
               /\ \A i \in PersistenceCalls : outcome.value = trace[i].ret

C4_Witness ==
    /\ NoHidden(modelClass)
    /\ Truthy(modelClass.fillable)
    /\ Returned
    /\ op.name = "findAll"
    /\ Fns = <<"beforeFind", "model.findMany", "afterFind">>
    /\ AfterHooksIdentity
    /\ "password" \in KeysOf(outcome.value)

\* C5: with non-empty hidden and non-empty fillable the mask's keys are the
\* primary key, the fillable fields and, with timestamps on, createdAt and
\* updatedAt, less the hidden ones.
C5_MaskKeys ==
    (/\ pc # "idle"
     /\ op.name # "delete"
     /\ HiddenSet # {}
     /\ FillableSet # {}) =>
        LET pk == IF modelClass.primaryKey = "" THEN "id" ELSE modelClass.primaryKey
            ts == IF modelClass.timestamps THEN {"createdAt", "updatedAt"} ELSE {}
        IN  /\ select # Undefined
            /\ DOMAIN select = ({pk} \cup FillableSet \cup ts) \ HiddenSet
            /\ DOMAIN select \cap HiddenSet = {}
            /\ pk \notin HiddenSet => pk \in DOMAIN select
            /\ \A k \in DOMAIN select : select[k] = TRUE

C5_Witness ==
    /\ pc # "idle"
    /\ op.name = "create"
    /\ HiddenSet = {"password", "updatedAt"}
    /\ FillableSet = {"name", "password"}
    /\ modelClass.timestamps
    /\ modelClass.primaryKey = "uid"
    /\ DOMAIN select = {"uid", "name", "createdAt"}

\* the primary key itself is hidden and stays out of the mask
C5_WitnessHiddenKey ==
    /\ pc # "idle"
    /\ op.name = "findById"
    /\ FillableSet # {}
    /\ getPrimaryKey(modelClass) \in HiddenSet
    /\ select # Undefined
    /\ getPrimaryKey(modelClass) \notin DOMAIN select

\* the client's introspection knows the model / the fields it lists for it
DmmfKnowsModel ==
    /\ Truthy(prisma.dmmf)
    /\ Truthy(prisma.dmmf.datamodel)
    /\ \E i \in DOMAIN prisma.dmmf.datamodel.models.items :
          prisma.dmmf.datamodel.models.items[i].name = modelClass.name

IntrospectedFields ==
    UNION {{prisma.dmmf.datamodel.models.items[i].fields.items[j].name :
              j \in DOMAIN prisma.dmmf.datamodel.models.items[i].fields.items} :
           i \in {n \in DOMAIN prisma.dmmf.datamodel.models.items :
                    prisma.dmmf.datamodel.models.items[n].name = modelClass.name}}

\* what the operation goes on with after the persistence call i resolved: the
\* after-hook's result argument, or the returned value when no after-hook runs
AfterFetch(i) ==
    IF i < Len(trace) THEN trace[i + 1].args.result ELSE outcome.value

\* C6: with non-empty hidden and no fillable, the mask is the introspected
\* fields less the hidden ones when introspection knows the model; when it is
\* absent, does not know the model or throws, there is no mask and no
\* exception, the persistence call carries no select and the hidden keys are
\* removed from what it resolved to.
C6_IntrospectionOrFallback ==
    (/\ pc # "idle"
     /\ op.name # "delete"
     /\ HiddenSet # {}
     /\ FillableSet = {}) =>
        IF DmmfKnowsModel
        THEN /\ select # Undefined
             /\ DOMAIN select = IntrospectedFields \ HiddenSet
        ELSE /\ select = Undefined
             /\ (trace = <<>>) => pc # "done"
             /\ \A i \in PersistenceCalls :
                  /\ "select" \notin DOMAIN trace[i].args
                  /\ (~trace[i].threw /\ (i < Len(trace) \/ Returned)) =>
                        AfterFetch(i) = Visible(trace[i].ret)

\* the lookup throws; the record found carries hidden keys, the one returned none
C6_Witness ==
    /\ Returned
    /\ op.name = "findById"
    /\ HiddenSet # {}
    /\ FillableSet = {}
    /\ Truthy(prisma.dmmf)
    /\ prisma.dmmf.datamodel = Undefined
    /\ select = Undefined
    /\ Fns = <<"model.findUnique">>
    /\ KeysOf(trace[1].ret) \cap HiddenSet # {}
    /\ outcome.value # Null
    /\ KeysOf(outcome.value) \cap HiddenSet = {}

\* introspection knows the model: the mask is passed on
C6_WitnessIntrospected ==
    /\ Returned
    /\ op.name = "findAll"
    /\ HiddenSet = {"password"}
    /\ FillableSet = {}
    /\ DmmfKnowsModel
    /\ DOMAIN select = Columns \ {"password"}
    /\ "select" \in DOMAIN trace[Len(trace)].args

\* C7: a hook that rejects ends the operation there with that rejection: after
\* a rejected before-hook there is no persistence call, after a rejected
\* after-hook there is exactly the one resolved persistence call before it, and
\* nothing is called afterwards.
C7_HookFailureAborts ==
    \A i \in DOMAIN trace :
        (trace[i].threw /\ trace[i].fn \in HookNames) =>
            /\ i = Len(trace)
            /\ Threw
            /\ outcome.value = trace[i].ret
            /\ IF trace[i].fn \in BeforeHooks
               THEN PersistenceCalls = {}
               ELSE /\ PersistenceCalls = {i - 1}
                    /\ ~trace[i - 1].threw

\* an after-hook rejects once the record has been written
C7_Witness ==
    /\ Threw
    /\ op.name = "update"
    /\ Fns = <<"beforeUpdate", "model.update", "afterUpdate">>
    /\ ~trace[2].threw
    /\ trace[3].threw
    /\ outcome.value = HookError

\* a before-hook rejects
C7_WitnessBefore ==
    /\ Threw
    /\ op.name = "delete"
    /\ Fns = <<"beforeDelete">>
    /\ trace[1].threw

\* C8: a rejected persistence call is the operation's only persistence call and
\* its last call, no after-hook runs, and the caller gets that same rejection.
C8_PersistenceFailurePropagates ==
    \A i \in PersistenceCalls :
        trace[i].threw =>
            /\ i = Len(trace)
            /\ Threw
            /\ outcome.value = trace[i].ret
            /\ PersistenceCalls = {i}
            /\ AfterCalls = {}

C8_Witness ==
    /\ Threw
    /\ op.name = "update"
    /\ HookDefined("afterUpdate")
    /\ Fns = <<"beforeUpdate", "model.update">>
    /\ trace[2].threw
    /\ outcome.value = Err("P2025")

\* C9: when findUnique resolves to null findById returns null and afterFind is
\* not called; when it resolves to a record, afterFind (if the model has one)
\* is called with the record without its hidden keys and findById returns
\* what afterFind resolved to.
C9_FindByIdNull ==
    (pc # "idle" /\ op.name = "findById") =>
        \A i \in PersistenceCalls :
            ~trace[i].threw =>
                IF trace[i].ret = Null
                THEN /\ i = Len(trace)
                     /\ Returned
                     /\ result = Null
                     /\ outcome.value = Null
                ELSE IF HookDefined("afterFind")
                     THEN IF i = Len(trace) THEN pc = "findById.afterFind"
                          ELSE /\ Len(trace) = i + 1
                               /\ trace[i + 1].fn = "afterFind"
                               /\ trace[i + 1].args = [result |-> Visible(trace[i].ret)]
                               /\ Done
                               /\ Returned => outcome.value = trace[i + 1].ret
                     ELSE /\ i = Len(trace)
                          /\ Returned
                          /\ outcome.value = Visible(trace[i].ret)

\* no record: null is returned although the model has afterFind and hidden fields
C9_Witness ==
    /\ Returned
    /\ op.name = "findById"
    /\ HookDefined("afterFind")
    /\ HiddenSet # {}
    /\ select = Undefined
    /\ trace[Len(trace)].fn = "model.findUnique"
    /\ trace[Len(trace)].ret = Null
    /\ outcome.value = Null

\* a record: afterFind's resolution is returned
C9_WitnessFound ==
    /\ Returned
    /\ op.name = "findById"
    /\ Fns = <<"beforeFind", "model.findUnique", "afterFind">>
    /\ trace[3].ret # trace[3].args.result
    /\ outcome.value = trace[3].ret

\* C10: delete calls persistence delete with { where: { id } } and nothing
\* else, whatever beforeDelete resolved to, gives afterDelete the id and the
\* persistence result as it is, and returns what afterDelete resolved to, or
\* the persistence result when the model has no afterDelete.
C10_Delete ==
    (pc # "idle" /\ op.name = "delete") =>
        /\ \A i \in DOMAIN trace :
             /\ (trace[i].fn = "beforeDelete" /\ ~trace[i].threw /\ i = Len(trace)) =>
                   pc = "delete.model"
             /\ trace[i].fn \in PersistenceFns =>
                   /\ trace[i].fn = "model.delete"
                   /\ trace[i].args = [where |-> [id |-> op.args.id]]
                   /\ ~trace[i].threw => trace[i].ret = Row(op.args.id)
             /\ trace[i].fn = "afterDelete" =>
                   /\ i > 1
                   /\ trace[i - 1].fn = "model.delete"
                   /\ trace[i].args = [id |-> op.args.id, result |-> trace[i - 1].ret]
        /\ Returned =>
             /\ trace[Len(trace)].fn =
                    (IF HookDefined("afterDelete") THEN "afterDelete" ELSE "model.delete")
             /\ outcome.value = trace[Len(trace)].ret

C10_Witness ==
    /\ Returned
    /\ op.name = "delete"
    /\ Fns = <<"beforeDelete", "model.delete", "afterDelete">>
    /\ trace[1].ret # Undefined
    /\ "password" \in HiddenSet \cap DOMAIN trace[2].ret
    /\ trace[3].ret # trace[2].ret
    /\ outcome.value = trace[3].ret

\* no afterDelete: the persistence result is returned, hidden keys and all
C10_WitnessNoAfter ==
    /\ Returned
    /\ op.name = "delete"
    /\ ~HookDefined("afterDelete")
    /\ "password" \in HiddenSet
    /\ outcome.value = Row(op.args.id)


-----------------------------------------------------------------------------
(* Vocabulary of the validation properties *)

\* a schema of the given generator has been applied to an object
Applied(schemaName) ==
    /\ validation # Undefined
    /\ validation.schema = schemaName
    /\ IsPlainObject(validation.input)

Accepted == ~validation.output.threw
Refused == validation.output.threw /\ IsZodError(validation.output.value)

\* the decorated fields, those whose required option is not explicitly false,
\* and those declared both primary and uuid
Declared == DOMAIN getFieldMetadata
RequiredFields ==
    {k \in Declared : ~(Has(getFieldMetadata[k], "required") /\ getFieldMetadata[k].required = FALSE)}
GeneratedKeys ==
    {k \in Declared : /\ Has(getFieldMetadata[k], "primary") /\ getFieldMetadata[k].primary
                      /\ getFieldMetadata[k].type = "uuid"}

\* a value of the declared kind: a string no longer than the declared maximum
\* length, a number, a boolean, a Date, a UUID string
ValidValue(options, v) ==
    CASE options.type = "string" ->
            /\ Typeof(v) = "string"
            /\ Has(options, "length") => v.length <= options.length
      [] options.type = "number" -> Typeof(v) = "number" /\ v # NaN
      [] options.type = "boolean" -> Typeof(v) = "boolean"
      [] options.type = "date" -> v = DateObject
      [] options.type = "uuid" -> v = UuidString

\* every declared field the object holds has a valid value
ValidFields(input) ==
    \A k \in Declared \cap DOMAIN input : ValidValue(getFieldMetadata[k], input[k])

\* C11: the partial schema accepts the empty object and every object whose
\* declared fields, whichever are present, hold valid values, and rejects an
\* object in which a declared field holds a value of the wrong kind.
C11_PartialSchema ==
    Applied("generateZodSchema") => (Accepted <=> ValidFields(validation.input))

\* the same with a declared length of 0 read as no maximum, which is how
\* createZodField reads it
ValidFieldsNonZeroLength(input) ==
    \A k \in Declared \cap DOMAIN input :
        \/ ValidValue(getFieldMetadata[k], input[k])
        \/ /\ getFieldMetadata[k].type = "string"
           /\ Typeof(input[k]) = "string"
           /\ Has(getFieldMetadata[k], "length") /\ getFieldMetadata[k].length = 0

PartialSchemaNonZeroLength ==
    Applied("generateZodSchema") =>
        /\ Accepted <=> ValidFieldsNonZeroLength(validation.input)
        /\ Accepted => validation.output.value =
                          [k \in Declared \cap DOMAIN validation.input |-> validation.input[k]]
        /\ ~Accepted => Refused

\* C12 as claimed: the strict schema accepts an object holding every field not
\* declared required: false with a valid value, whether or not the other fields
\* are present, and rejects it with any one of the former removed.
C12_StrictSchemaAllRequired ==
    (Applied("generateStrictZodSchema") /\ ValidFields(validation.input)) =>
        /\ RequiredFields \subseteq DOMAIN validation.input => Accepted
        /\ Cardinality(RequiredFields \ DOMAIN validation.input) = 1 => Refused

\* C12: the same for the required fields that are not declared both primary
\* and uuid: with all of them present the object is accepted, with one of them
\* removed it is rejected, and the presence of the other fields changes nothing.
C12_StrictSchema ==
    (Applied("generateStrictZodSchema") /\ ValidFields(validation.input)) =>
        /\ (RequiredFields \ GeneratedKeys) \subseteq DOMAIN validation.input => Accepted
        /\ (RequiredFields \ GeneratedKeys) \ DOMAIN validation.input # {} => Refused

\* accepted with the required field, the required: false field left out
C12_Witness ==
    /\ Applied("generateStrictZodSchema")
    /\ Declared = {"id", "name"}
    /\ RequiredFields = {"name"}
    /\ DOMAIN validation.input = {"name"}
    /\ ValidFields(validation.input)
    /\ Accepted

\* rejected with a required field removed
C12_WitnessRemoved ==
    /\ Applied("generateStrictZodSchema")
    /\ RequiredFields = {"id", "name"}
    /\ GeneratedKeys = {}
    /\ DOMAIN validation.input = {"id"}
    /\ ValidFields(validation.input)
    /\ Refused

C14_WitnessNonText ==
    /\ Applied("Fillable.generateZodSchema")
    /\ FillableOrEmpty(modelClass) = {"name", "password"}
    /\ DOMAIN validation.input = {"password"}
    /\ validation.input.password = Num(1)
    /\ Refused

-----------------------------------------------------------------------------
(* Vocabulary of the route properties *)

IsList == req # Undefined /\ req.method = "GET" /\ Has(req, "query")
IsGetOne == req # Undefined /\ req.method = "GET" /\ Has(req, "params")
IsPost == req # Undefined /\ req.method = "POST"
IsPut == req # Undefined /\ req.method = "PUT"
IsDelete == req # Undefined /\ req.method = "DELETE"

\* the handler has answered the request
Responded == req # Undefined /\ handler = "none"

\* the i-th Repository call of the handler has settled: returned, or failed
Settled(i) == i <= Len(calls) /\ Has(calls[i], "settled")
CallReturned(i) == Settled(i) /\ ~calls[i].settled.threw
CallFailed(i) == Settled(i) /\ calls[i].settled.threw

ValidationFailure(error) ==
    Response(400, [error |-> "Validation error", details |-> error.issues])

\* what the strict and the partial schema make of the body
StrictParsed == parse(generateStrictZodSchema, req.body)
PartialParsed == parse(generateZodSchema, req.body)

\* C13: a field declared primary and uuid is no key of the strict schema; a
\* create body that holds the other required fields with valid values is
\* accepted without it; and the data handed to Repository.create never holds it.
C13_GeneratedKeyExcluded ==
    /\ GeneratedKeys \cap DOMAIN generateStrictZodSchema.shape = {}
    /\ (IsPost /\ IsPlainObject(req.body)) =>
          /\ (/\ ValidFields(req.body)
              /\ (RequiredFields \ GeneratedKeys) \subseteq DOMAIN req.body) =>
                 (calls # <<>> /\ calls[1].fn = "create")
          /\ calls # <<>> => GeneratedKeys \cap DOMAIN calls[1].args.data = {}

\* the client supplies the generated key; create is called without it
C13_Witness ==
    /\ IsPost /\ Responded
    /\ GeneratedKeys = {"id"}
    /\ req.body = [id |-> UuidString, name |-> Str(1, "text")]
    /\ calls[1].args.data = [name |-> Str(1, "text")]
    /\ res[1].status = 201

\* the body leaves the generated key out and is accepted
C13_WitnessWithout ==
    /\ IsPost /\ Responded
    /\ GeneratedKeys = {"id"}
    /\ RequiredFields = {"id", "name"}
    /\ DOMAIN req.body = {"name"}
    /\ res[1].status = 201

C15_WitnessRejected ==
    /\ IsPost /\ Responded
    /\ IsPlainObject(req.body)
    /\ StrictParsed.threw
    /\ res[1].status = 400
    /\ calls = <<>>

C16_WitnessPost ==
    /\ IsPost /\ Responded
    /\ RequiredFields \ GeneratedKeys # {}
    /\ DOMAIN req.body = {}
    /\ res[1].status = 400

\* the page and the limit a query asks for, as integers: the digits written
\* in the query, 1 and 10 when the query has none
PageOf(query) == IF Has(query, "page") THEN query.page.digits ELSE 1
LimitOf(query) == IF Has(query, "limit") THEN query.limit.digits ELSE 10

\* page and limit are integers >= 1 where the query gives them
WholePages(query) ==
    /\ Has(query, "page") => (Has(query.page, "digits") /\ query.page.digits >= 1)
    /\ Has(query, "limit") => (Has(query.limit, "digits") /\ query.limit.digits >= 1)

\* the least number of pages of `limit` records that hold `total` records
PagesFor(total, limit) == CHOOSE n \in 0 .. total : n * limit >= total /\ (n - 1) * limit < total

C17_WitnessDefaults ==
    /\ IsList /\ Responded /\ CallReturned(2)
    /\ ~Has(req.query, "page") /\ ~Has(req.query, "limit")
    /\ calls[1].args.options.skip = Num(0)
    /\ calls[1].args.options.take = Num(10)
    /\ calls[2].settled.value = Num(11)
    /\ res[1].json.pagination = [page |-> Num(1), limit |-> Num(10), total |-> Num(11), pages |-> Num(2)]

C19_WitnessFound200 ==
    /\ IsGetOne /\ Responded
    /\ CallReturned(1) /\ calls[1].settled.value # Null
    /\ res = <<Response(200, calls[1].settled.value)>>

\* the body of the request fails the schema its route validates it with
BodyFailsSchema ==
    \/ IsPost /\ StrictParsed.threw
    \/ IsPut /\ PartialParsed.threw

\* C20: on every CRUD route a failure of the Repository call, whatever was
\* thrown, is answered 500 {error: "Internal server error"}, and 400 is
\* answered only when the body of the request fails the schema.
C20_RepositoryFailure500 ==
    Responded =>
        /\ (\E i \in DOMAIN calls : CallFailed(i)) => res = <<InternalServerError>>
        /\ res[1].status = 400 => BodyFailsSchema

\* the same for the failures that are no ZodError
RepositoryFailure500UnlessZodError ==
    Responded =>
        /\ (\E i \in DOMAIN calls : CallFailed(i) /\ ~IsZodError(calls[i].settled.value)) =>
              res = <<InternalServerError>>
        /\ res[1].status = 400 =>
              \/ BodyFailsSchema
              \/ (IsPost \/ IsPut) /\ CallFailed(1) /\ IsZodError(calls[1].settled.value)

-----------------------------------------------------------------------------
(* The key of the persistence call *)

\* C25: for a model whose configured primary key is not "id", the persistence
\* call of findById (the model having no beforeFind hook to rewrite the query),
\* of update and of delete is keyed on the configured primary key field with
\* the given id.
C25_KeyedOnPrimaryKey ==
    (/\ pc # "idle"
     /\ op.name \in {"findById", "update", "delete"}
     /\ op.name = "findById" => ~HookDefined("beforeFind")
     /\ getPrimaryKey(modelClass) # "id")
        => \A i \in DOMAIN trace :
              trace[i].fn \in PersistenceFns =>
                 trace[i].args.where = [k \in {getPrimaryKey(modelClass)} |-> op.args.id]

-----------------------------------------------------------------------------
(* One response per request *)

\* C27: every invocation of a generated CRUD handler sends exactly one
\* response: none while the handler awaits the Repository, one once it is
\* over, on the success, not-found, validation-failure and Repository-failure
\* paths alike, and never a second one.
C27_ExactlyOneResponse ==
    /\ Len(res) <= 1
    /\ Responded => Len(res) = 1
    /\ (req # Undefined /\ handler # "none") => res = <<>>

\* DELETE answers 204 without a body
C27_Witness ==
    /\ IsDelete /\ Responded
    /\ CallReturned(1)
    /\ res = <<Response(204, Undefined)>>

\* LIST whose count failed after findAll returned
C27_WitnessFailure ==
    /\ IsList /\ Responded
    /\ CallReturned(1) /\ CallFailed(2)
    /\ res = <<InternalServerError>>

-----------------------------------------------------------------------------
(* Mass assignment through the routes *)

\* C30: on a model without hooks (each hook defaults to the identity) the data
\* of the persistence create or update call made through the POST and PUT
\* routes holds only keys that are declared fields or fillable members, each
\* with the value the request body gave it; every other key of the body is
\* dropped before the Repository is called.
C30_OnlyDeclaredKeysPersisted ==
    (modelClass.hooks = {} /\ (IsPost \/ IsPut)) =>
        \A i \in DOMAIN trace :
            trace[i].fn \in {"model.create", "model.update"} =>
                /\ DOMAIN trace[i].args.data \subseteq (Declared \cup FillableSet)
                /\ DOMAIN trace[i].args.data \subseteq DOMAIN req.body
                /\ \A k \in DOMAIN trace[i].args.data : trace[i].args.data[k] = req.body[k]

\* a body key that is neither declared nor fillable never reaches create
C30_Witness ==
    /\ modelClass.hooks = {} /\ IsPost
    /\ fieldMetadata = Undefined
    /\ Has(req.body, "id") /\ "id" \notin FillableSet
    /\ trace # <<>> /\ trace[1].fn = "model.create"
    /\ trace[1].args.data = EmptyObject

\* an update: the declared key is kept, the other key of the body is dropped
C30_WitnessUpdate ==
    /\ modelClass.hooks = {} /\ IsPut
    /\ fieldMetadata # Undefined
    /\ Has(req.body, "password") /\ Has(req.body, "name")
    /\ trace # <<>> /\ trace[1].fn = "model.update"
    /\ DOMAIN trace[1].args.data = {"name"}

\* the same with the fillable-based generator: what its schemas return holds
\* fillable members only
FillableSchemaKeepsFillableOnly ==
    ((Applied("Fillable.generateZodSchema") \/ Applied("Fillable.generateStrictZodSchema"))
        /\ Accepted)
        => DOMAIN validation.output.value \subseteq FillableOrEmpty(modelClass)

-----------------------------------------------------------------------------
(* Vocabulary of the orchestrator properties *)

\* the registrations so far, one per class, in order: the class and the number
\* of the registerModel call that registered it
RECURSIVE RegistrationsFrom(_)
RegistrationsFrom(i) ==
    IF i > Len(setup) THEN <<>>
    ELSE (IF setup[i].fn = "registerModel"
          THEN [j \in DOMAIN setup[i].args |-> [modelClass |-> setup[i].args[j], call |-> i]]
          ELSE <<>>) \o RegistrationsFrom(i + 1)

Registrations == RegistrationsFrom(1)

RegisteredClasses == {Registrations[i].modelClass : i \in DOMAIN Registrations}

\* the names registered by the calls before call n
NamesBefore(n) ==
    {Registrations[i].modelClass.name : i \in {j \in DOMAIN Registrations : Registrations[j].call < n}}

RegisteredNames == NamesBefore(Len(setup) + 1)

\* the most recent registration under a name
LatestOf(name) ==
    Registrations[CHOOSE i \in DOMAIN Registrations :
                     /\ Registrations[i].modelClass.name = name
                     /\ \A j \in DOMAIN Registrations :
                           Registrations[j].modelClass.name = name => j <= i]

LastIs(fn) == Has(last, "fn") /\ last.fn = fn

\* the calls of generateRoutes so far
Generations == {i \in DOMAIN setup : setup[i].fn = "generateRoutes"}

\* the registry holds what was registered and nothing else
RegistryAsRegistered ==
    Truthy(crudora) =>
        /\ MapKeys(crudora.models) = RegisteredNames
        /\ MapKeys(crudora.repositories) = RegisteredNames

\* constructing without a client fails and leaves no instance
ConstructorNeedsClient ==
    (LastIs("constructor") /\ ~Truthy(last.args.prisma)) =>
        (last.threw /\ crudora = Undefined)

\* C21 read with a model being a class: the lookup fails for every class that
\* has not been registered and returns for every registered class the
\* repository built for that class.
C21_LookupByClass ==
    /\ ConstructorNeedsClient
    /\ RegistryAsRegistered
    /\ LastIs("getRepository") =>
          IF last.args.modelClass \in RegisteredClasses
          THEN ~last.threw /\ last.value.modelClass = last.args.modelClass
          ELSE last.threw

\* C21: constructing the orchestrator without a persistence client fails and
\* yields no instance; getRepository fails for every class under whose name no
\* model has been registered, leaving the registry unchanged, and returns for
\* every other class the repository created by the most recent registration
\* under its name.
C21_LookupByName ==
    /\ ConstructorNeedsClient
    /\ RegistryAsRegistered
    /\ LastIs("getRepository") =>
          IF last.args.modelClass.name \in RegisteredNames
          THEN /\ ~last.threw
               /\ last.value.modelClass = LatestOf(last.args.modelClass.name).modelClass
               /\ last.value.created = LatestOf(last.args.modelClass.name).call
               /\ last.value = MapGet(crudora.repositories, last.args.modelClass.name)
          ELSE last.threw

\* a lookup that fails after another model was registered
C21_Witness ==
    /\ LastIs("getRepository")
    /\ last.threw
    /\ RegisteredNames = {"User"}
    /\ last.args.modelClass.name = "Post"
    /\ MapKeys(crudora.repositories) = {"User"}

\* a lookup that returns the repository of the second registration
C21_WitnessReturned ==
    /\ LastIs("getRepository")
    /\ ~last.threw
    /\ last.value.created = 2

\* the constructor refused
C21_WitnessConstructor ==
    /\ LastIs("constructor")
    /\ last.threw
    /\ crudora = Undefined

\* C22: after generateRoutes, a request whose method and path match a custom
\* route registered before it is dispatched to the handler of that custom
\* route, also when a generated CRUD route matches the same method and path.
C22_CustomRouteDispatched ==
    LastIs("handle") =>
        \A g \in Generations : \A i \in 1 .. (g - 1) :
            (/\ setup[i].fn = "customRoute"
             /\ setup[i].args.method = last.args.method
             /\ Matches(BasePath \o setup[i].args.path, last.args.path))
                => last.value = CustomLayer(setup[i].args.method,
                                            BasePath \o setup[i].args.path,
                                            setup[i].args.handler)

\* the same for the requests that no generated CRUD route matches
CustomRouteDispatchedUnlessCrud ==
    (/\ LastIs("handle")
     /\ \A l \in DOMAIN app :
            app[l].type = "CRUD" =>
               ~(app[l].method = last.args.method /\ Matches(app[l].path, last.args.path)))
        => \A g \in Generations : \A i \in 1 .. (g - 1) :
            (/\ setup[i].fn = "customRoute"
             /\ setup[i].args.method = last.args.method
             /\ Matches(BasePath \o setup[i].args.path, last.args.path))
                => last.value = CustomLayer(setup[i].args.method,
                                            BasePath \o setup[i].args.path,
                                            setup[i].args.handler)

\* the entries a route list would hold for the mounted routes
RouteEntries ==
    {[method |-> app[l].method, path |-> app[l].path, type |-> app[l].type] : l \in DOMAIN app}

\* C23: after generateRoutes, GET {basePath} is answered 200 with a routes list
\* that holds one entry {method, path, type} for each generated CRUD route and
\* each custom route registered before generateRoutes, and no other entry.
C23_DocumentationEndpoint ==
    (/\ LastIs("handle")
     /\ Generations # {}
     /\ last.args.method = "GET"
     /\ last.args.path = BasePath)
        => /\ Has(last.value, "routes")
           /\ last.value.status = 200
           /\ {last.value.routes[i] : i \in DOMAIN last.value.routes} = RouteEntries

\* C26: a second invocation of generateRoutes is rejected: it mounts nothing,
\* and no route is mounted twice.
C26_GenerateOnce ==
    /\ \A g \in Generations : \A h \in Generations : g < h => setup[h].mounted = <<>>
    /\ \A k \in DOMAIN app : \A l \in DOMAIN app : app[k] = app[l] => k = l

\* C28: the collection segment of every generated route path is the name of
\* the persistence collection that the Repository of the route's model calls.
C28_RouteCollectionIsRepositoryCollection ==
    \A l \in DOMAIN app :
        app[l].type = "CRUD" =>
            app[l].path[Len(BasePath) + 1] = app[l].repository.modelName

\* the same for the models that carry no decorator metadata
RouteCollectionWithoutMetadata ==
    \A l \in DOMAIN app :
        (app[l].type = "CRUD" /\ app[l].modelClass.metadata = Undefined) =>
            app[l].path[Len(BasePath) + 1] = app[l].repository.modelName

\* the CRUD routes among the routes a call mounted
CrudOf(layers) == SelectSeq(layers, LAMBDA l : l.type = "CRUD")

\* C29: after any sequence of registerModel calls the model map and the
\* repository map have the registered names as their keys, each name maps to
\* the class most recently registered under it and to a repository built from
\* that class by that registration, and a call of generateRoutes mounts one
\* set of five CRUD routes per name, however often the name was registered.
C29_RegistryMaps ==
    /\ RegistryAsRegistered
    /\ Truthy(crudora) =>
          \A name \in RegisteredNames :
              /\ MapGet(crudora.models, name) = LatestOf(name).modelClass
              /\ MapGet(crudora.repositories, name).modelClass = LatestOf(name).modelClass
              /\ MapGet(crudora.repositories, name).created = LatestOf(name).call
    /\ \A g \in Generations :
          /\ Len(CrudOf(setup[g].mounted)) = 5 * Cardinality(NamesBefore(g))
          /\ \A name \in NamesBefore(g) :
                [i \in 1 .. 5 |->
                    SelectSeq(CrudOf(setup[g].mounted),
                              LAMBDA l : l.modelClass.name = name)[i].route]
                    = <<"LIST", "GET_ONE", "CREATE", "UPDATE", "DELETE">>

\* a name registered twice with different classes, then the routes generated
C29_Witness ==
    /\ Len(setup) = 3
    /\ setup[1].fn = "registerModel" /\ setup[2].fn = "registerModel"
    /\ setup[1].args[1].name = "User" /\ setup[2].args[1].name = "User"
    /\ setup[1].args[1] # setup[2].args[1]
    /\ setup[3].fn = "generateRoutes"
    /\ Len(setup[3].mounted) = 5
    /\ MapGet(crudora.models, "User") = setup[2].args[1]

-----------------------------------------------------------------------------
(* Concurrent requests (SpecConcurrent) *)

\* the registry and the mounted routes are what startup made them
RegistryAsStarted ==
    /\ crudora = Startup
    /\ app = Mounted(Startup, BasePath)

\* the Repository calls a handler makes for the request rq, as far as it gets
CallsFor(rq) ==
    IF rq.method = "GET" /\ Has(rq, "query")
    THEN <<[fn |-> "findAll", args |-> [options |-> ListOptions(rq.query)]],
           [fn |-> "count", args |-> [where |-> Filters(rq.query)]]>>
    ELSE IF rq.method = "GET"
    THEN <<[fn |-> "findById", args |-> [id |-> rq.params.id]]>>
    ELSE IF rq.method = "POST"
    THEN IF parse(generateStrictZodSchema, rq.body).threw THEN <<>>
         ELSE <<[fn |-> "create",
                 args |-> [data |-> parse(generateStrictZodSchema, rq.body).value]]>>
    ELSE IF rq.method = "PUT"
    THEN IF parse(generateZodSchema, rq.body).threw THEN <<>>
         ELSE <<[fn |-> "update",
                 args |-> [id |-> rq.params.id,
                           data |-> parse(generateZodSchema, rq.body).value]]>>
    ELSE <<[fn |-> "delete", args |-> [id |-> rq.params.id]]>>

\* a call without what it settled with
Unsettled(call) == [k \in DOMAIN call \ {"settled"} |-> call[k]]

\* the answer to the request rq, given what the calls c made for it settled with
ResponseOf(rq, c) ==
    IF rq.method = "GET" /\ Has(rq, "query")
    THEN IF c[1].settled.threw \/ c[2].settled.threw THEN InternalServerError
         ELSE Response(200, [data |-> c[1].settled.value,
                             pagination |-> Pagination(rq.query, c[2].settled.value)])
    ELSE IF rq.method = "GET"
    THEN IF c[1].settled.threw THEN InternalServerError
         ELSE IF ~Truthy(c[1].settled.value) THEN Response(404, [error |-> "Not found"])
         ELSE Response(200, c[1].settled.value)
    ELSE IF rq.method = "POST"
    THEN IF c = <<>> THEN CatchValidation(parse(generateStrictZodSchema, rq.body).value)
         ELSE IF c[1].settled.threw THEN CatchValidation(c[1].settled.value)
         ELSE Response(201, c[1].settled.value)
    ELSE IF rq.method = "PUT"
    THEN IF c = <<>> THEN CatchValidation(parse(generateZodSchema, rq.body).value)
         ELSE IF c[1].settled.threw THEN CatchValidation(c[1].settled.value)
         ELSE Response(200, c[1].settled.value)
    ELSE IF c[1].settled.threw THEN InternalServerError
         ELSE Response(204, Undefined)

\* the awaited calls of a Repository operation
OperationCalls(name) == IF name = "count" THEN <<"model.count">> ELSE ExpectedCalls(name)

\* a request in flight (x: the locals of its handler and of the Repository
\* operation the handler awaits) holds nothing of another request:
\*  - the handler's calls are those its own request asks for, in order;
\*  - the operation in flight is the handler's last call, its awaited calls are
\*    those of that operation and a failure is the one of its last awaited call;
\*  - `items` is what the request's own findAll returned;
\*  - the response sent is the one its own request and calls determine
OwnRequest(x) ==
    /\ x.req = Undefined => x = NoRequest
    /\ x.req # Undefined =>
        /\ Len(x.calls) <= Len(CallsFor(x.req))
        /\ \A i \in DOMAIN x.calls : Unsettled(x.calls[i]) = CallsFor(x.req)[i]
        /\ \A i \in DOMAIN x.calls : i < Len(x.calls) => Has(x.calls[i], "settled")
        /\ x.handler # "none" =>
              /\ x.calls # <<>>
              /\ ~Has(x.calls[Len(x.calls)], "settled")
              /\ x.op = [name |-> x.calls[Len(x.calls)].fn, args |-> x.calls[Len(x.calls)].args]
              /\ Len(x.trace) <= Len(OperationCalls(x.op.name))
              /\ \A i \in DOMAIN x.trace : x.trace[i].fn = OperationCalls(x.op.name)[i]
              /\ x.pc = "done" /\ x.outcome.threw /\ x.trace # <<>> =>
                    /\ x.trace[Len(x.trace)].threw
                    /\ x.trace[Len(x.trace)].ret = x.outcome.value
              /\ x.res = <<>>
        /\ x.handler = "LIST.count" => x.items = x.calls[1].settled.value
        /\ x.handler = "none" =>
              /\ x.op = Undefined /\ x.trace = <<>>
              /\ \A i \in DOMAIN x.calls : Has(x.calls[i], "settled")
              /\ x.res = <<ResponseOf(x.req, x.calls)>>

\* C24: under any interleaving of two requests handled concurrently, each
\* suspended at its hook and persistence awaits, the registered-model map, the
\* repository map, the custom-route list and the mounted routes stay what
\* startup made them, and the response to a request is determined by that
\* request's own input and by what the hook and persistence calls made for it
\* came to: the locals of each request hold nothing of the other
C24_NoSharedMutableState ==
    /\ RegistryAsStarted
    /\ OwnRequest(Running)
    /\ OwnRequest(suspended)

\* a LIST request is answered 200 with its own records while another LIST
\* request, holding other records, waits for its count
C24_Witness ==
    /\ handler = "none" /\ req # Undefined /\ Has(req, "query")
    /\ res # <<>> /\ res[1].status = 200
    /\ suspended.handler = "LIST.count"
    /\ suspended.req.query # req.query
    /\ suspended.items # res[1].json.data

\* two requests are in flight at once, each past its first Repository call's
\* start: a PUT waiting for its persistence call and a LIST waiting for count
C24_WitnessOverlap ==
    /\ handler = "PUT.update" /\ pc = "update.model"
    /\ suspended.handler = "LIST.count" /\ suspended.pc = "count.model"

====
